---- MODULE Spec2Model ----
(***************************************************************************)
(* Model of FamaFrench/batch_process.py: the batch loop of process_stocks  *)
(* (download, returns, factor merge, rolling regression, scoring, row      *)
(* assembly, save).                                                        *)
(*                                                                         *)
(* Numbers.  A Python float is modelled as a fixed-point integer counting  *)
(* units of 10^-4 (1.3 is 13000, a score of 100 is 1000000), or one of the *)
(* three non-finite values NaN, PosInf, NegInf.  The operators below give  *)
(* the IEEE / Python result of each float operation the code performs.     *)
(***************************************************************************)
EXTENDS Integers, Sequences, FiniteSets, TLC

Scale == 10^4
PosInf == 2 * 10^9
NegInf == 0 - PosInf
NaN == PosInf + 1

IsNaN(x) == x = NaN
IsInf(x) == x = PosInf \/ x = NegInf
IsFinite(x) == ~IsNaN(x) /\ ~IsInf(x)

\* a > b and a < b on floats: every comparison with NaN is false
FGt(a, b) == ~IsNaN(a) /\ ~IsNaN(b) /\ a > b
FLt(a, b) == ~IsNaN(a) /\ ~IsNaN(b) /\ a < b

\* x * k for a positive literal k (50, 100)
FMul(x, k) == IF IsFinite(x) THEN x * k ELSE x
\* c + x for a finite literal c (50), c given in units
FAdd(c, x) == IF IsFinite(x) THEN c + x ELSE x
\* a / b - 1 for positive finite prices a, b (exact to 10^-4 on the modelled prices)
PriceChange(a, b) == ((a * Scale) \div b) - Scale

\* Python's max(a, b) and min(a, b): the first argument is kept unless the
\* second compares strictly greater (smaller)
PyMax(a, b) == IF FGt(b, a) THEN b ELSE a
PyMin(a, b) == IF FLt(b, a) THEN b ELSE a

\* round(x, nd) with unit = 10^(4-nd): the nearest multiple of unit; on an
\* exact decimal tie the binary representation of the float decides, so
\* either neighbour can result.  A non-finite value is returned unchanged.
RoundSet(x, unit) ==
    IF ~IsFinite(x) THEN {x}
    ELSE LET r == x % unit
             lo == x - r
         IN  IF 2 * r < unit THEN {lo}
             ELSE IF 2 * r > unit THEN {lo + unit}
             ELSE {lo, lo + unit}

Abs(x) == IF x < 0 THEN 0 - x ELSE x

----------------------------------------------------------------------------
(* String conversions *)

Digit(n) ==
    CASE n = 0 -> "0" [] n = 1 -> "1" [] n = 2 -> "2" [] n = 3 -> "3"
      [] n = 4 -> "4" [] n = 5 -> "5" [] n = 6 -> "6" [] n = 7 -> "7"
      [] n = 8 -> "8" [] n = 9 -> "9"

RECURSIVE NatStr(_)
NatStr(n) == IF n < 10 THEN Digit(n) ELSE NatStr(n \div 10) \o Digit(n % 10)

Pad2(n) == Digit((n \div 10) % 10) \o Digit(n % 10)
Pad4(n) == Pad2(n \div 100) \o Pad2(n % 100)

\* f"{x:.2f}" once x has been rounded to r (a multiple of 10^-2); the sign
\* is that of x, so a small negative x prints as "-0.00"
Fixed2Str(x, r) ==
    IF IsNaN(x) THEN "nan"
    ELSE IF x = PosInf THEN "inf"
    ELSE IF x = NegInf THEN "-inf"
    ELSE (IF x < 0 THEN "-" ELSE "")
         \o NatStr(Abs(r) \div Scale) \o "." \o Pad2((Abs(r) % Scale) \div 100)

\* the strings f"{x:.2f}" can produce
Fmt2(x) == { Fixed2Str(x, r) : r \in RoundSet(x, 100) }

\* Timestamp.strftime('%Y-%m-%d')
StrfDate(dt) == Pad4(dt.y) \o "-" \o Pad2(dt.m) \o "-" \o Pad2(dt.d)

\* sep.join(parts)
RECURSIVE Join(_, _)
Join(sep, parts) ==
    IF parts = <<>> THEN ""
    ELSE IF Len(parts) = 1 THEN parts[1]
    ELSE parts[1] \o sep \o Join(sep, Tail(parts))

\* the results of ",".join over every choice of one string per position
RECURSIVE JoinChoices(_, _)
JoinChoices(sep, sets) ==
    IF sets = <<>> THEN {""}
    ELSE IF Len(sets) = 1 THEN sets[1]
    ELSE { h \o sep \o t : h \in sets[1], t \in JoinChoices(sep, Tail(sets)) }

----------------------------------------------------------------------------
(* Program constants *)

\* `len(df) < 252`: rows the downloaded price table must have
MinPriceRows == 252
\* `len(df_merged) < 126`: rows the merged table must have
MinOverlap == 126
\* RollingOLS(y, X, window=252)
Window == 252
\* px.iloc[-126] and `len(px) > 126`
MomLookback == 126
\* daily_returns.tail(252)
ReturnsTail == 252
\* .iloc[::20] and .tail(10) of the trend string
TrendStep == 20
TrendKeep == 10

----------------------------------------------------------------------------
(* What the external collaborators deliver for one ticker.                 *)
(*   n        rows of the table yf.download returns (0: empty)             *)
(*   valid    the Close column holds prices (FALSE: every close missing)   *)
(*   base, last, turn   the closes: `last` on the final `turn` sessions,   *)
(*            `base` on every session before them                          *)
(*   overlap  rows of the inner join of the returns with the factor table  *)
(*            that have no missing value                                   *)
(*   lastDate the date of the last merged row                              *)
(*   coef     the final row of RollingOLS(...).fit().params                *)
(*   early    the market loading of the first complete window; the loading *)
(*            of each later window before the final one is 0.01 higher     *)
(*   raises   the step of the loop body that raises an Exception, if any   *)
(***************************************************************************)

Coef(c, m, s, h, r, a) ==
    [const |-> c, mkt |-> m, smb |-> s, hml |-> h, rmw |-> r, cma |-> a]

CoefNames == {"const", "mkt", "smb", "hml", "rmw", "cma"}

AllNaN == Coef(NaN, NaN, NaN, NaN, NaN, NaN)

Inst(n, valid, base, last, turn, overlap, coef, early, raises, lastDate) ==
    [n |-> n, valid |-> valid, base |-> base, last |-> last, turn |-> turn,
     overlap |-> overlap, coef |-> coef, early |-> early, raises |-> raises,
     lastDate |-> lastDate]

\* df['Close'] at the 1-based position k
Px(d, k) == IF k > d.n - d.turn THEN d.last ELSE d.base

Flat(d) == d.base = d.last

\* df['Close']: a price at every row, or a missing value at every row
Close(d) == [k \in 1..d.n |-> IF d.valid THEN Px(d, k) ELSE NaN]

\* c.pct_change(): c[k] / c[k-1] - 1, missing at the first row and where
\* one of the two closes is missing
PctChange(c) ==
    [k \in DOMAIN c |->
        IF k = 1 THEN NaN
        ELSE IF IsNaN(c[k]) \/ IsNaN(c[k - 1]) THEN NaN
        ELSE PriceChange(c[k], c[k - 1])]

\* s.dropna()
DropNaN(s) == SelectSeq(s, LAMBDA x : ~IsNaN(x))

\* daily_returns = df['Close'].pct_change().dropna()
DailyReturns(d) == DropNaN(PctChange(Close(d)))

\* the length of a return series that keeps its first row:
\* len(df['Close'].pct_change().fillna(0))
NumReturnsAllRows(d) == d.n

\* len(df['Close'].pct_change().dropna()): the first price has no return,
\* a missing close gives no return
NumReturns(d) == IF d.valid /\ d.n >= 1 THEN d.n - 1 ELSE 0

\* len(pd.DataFrame({'Stock_Ret': daily_returns}).join(ff_data, how='inner').dropna())
NumMerged(d) == d.overlap

Date1 == [y |-> 2024, m |-> 12, d |-> 31]
Date2 == [y |-> 2025, m |-> 1, d |-> 3]

----------------------------------------------------------------------------
(* Dates.  A Timestamp is the number of its day, counted from FirstDay.    *)

FirstDay == [y |-> 2023, m |-> 1, d |-> 1]

IsLeap(y) == y % 4 = 0 /\ (y % 100 # 0 \/ y % 400 = 0)
DaysInYear(y) == IF IsLeap(y) THEN 366 ELSE 365
DaysInMonth(y, m) ==
    IF m \in {4, 6, 9, 11} THEN 30
    ELSE IF m = 2 THEN (IF IsLeap(y) THEN 29 ELSE 28)
    ELSE 31

RECURSIVE DaysBeforeYear(_)
DaysBeforeYear(y) ==
    IF y <= FirstDay.y THEN 0 ELSE DaysBeforeYear(y - 1) + DaysInYear(y - 1)

\* the days of year y before its month m
DaysBeforeMonth(y, m) ==
    <<0, 31, 59, 90, 120, 151, 181, 212, 243, 273, 304, 334>>[m]
        + (IF m > 2 /\ IsLeap(y) THEN 1 ELSE 0)

\* the day number of a calendar date
OrdOf(dt) == DaysBeforeYear(dt.y) + DaysBeforeMonth(dt.y, dt.m) + dt.d

RECURSIVE CalFrom(_, _, _)
CalFrom(y, m, o) ==
    IF o > DaysInYear(y) /\ m = 1 THEN CalFrom(y + 1, 1, o - DaysInYear(y))
    ELSE IF o > DaysInMonth(y, m) THEN CalFrom(y, m + 1, o - DaysInMonth(y, m))
    ELSE [y |-> y, m |-> m, d |-> o]

\* the calendar date of a day number
CalDate(o) == CalFrom(FirstDay.y, 1, o)

\* pd.to_datetime(index, format='%Y%m%d') of one index entry of the CSV
ParseYmd(v) ==
    OrdOf([y |-> v \div 10000, m |-> (v \div 100) % 100, d |-> v % 100])

----------------------------------------------------------------------------
(* The factor table.  The CSV of the archive is described by the range of  *)
(* its index, the dates of the range it has no row for, and the dates      *)
(* whose row has an empty cell; the index holds integers yyyymmdd.  The    *)
(* loaded table is described by the day numbers of its first and last row  *)
(* and the days in between it has no row for; `div` is what its cells have *)
(* been divided by.                                                        *)

FactorFile(first, last, absent, incomplete) ==
    [first |-> first, last |-> last, absent |-> absent, incomplete |-> incomplete]

NoFile == FactorFile(0, 0, {}, {})

FFTable(first, last, absent, div) ==
    [first |-> first, last |-> last, absent |-> absent, div |-> div]

\* ff_data before it is assigned
NoTable == FFTable(1, 0, {}, 1)

\* the index of a loaded factor table
TableDates(t) == (t.first .. t.last) \ t.absent

\* read_csv, to_datetime on the index, ff_data.dropna(), ff_data / 100.0
Prepared(csv) ==
    FFTable(ParseYmd(csv.first), ParseYmd(csv.last),
            { ParseYmd(v) : v \in csv.absent \cup csv.incomplete }, 100)

\* the last day of the factor files, and the day they have no complete row for
FileLast == OrdOf(Date2)
OffDay == OrdOf([y |-> 2023, m |-> 4, d |-> 10])

\* the factor files the download can deliver
FactorFiles ==
    { FactorFile(20230101, 20250103, {}, {20230410}),
      FactorFile(20230101, 20250103, {20230410}, {}) }

----------------------------------------------------------------------------
(* The sessions of an instrument.  Without returns outside the merged      *)
(* table the n sessions are the n days ending at lastDate.  Otherwise the  *)
(* first two sessions are the day before OffDay and OffDay, the next       *)
(* `overlap` sessions are the days ending at lastDate, and the remaining   *)
(* sessions follow the last day of the factor file.                        *)

\* df.index at the 1-based position k, E being the day number of lastDate
PxDateFrom(d, E, k) ==
    IF d.n - 1 - d.overlap <= 0 THEN E - d.n + k
    ELSE IF k = 1 THEN OffDay - 1
    ELSE IF k = 2 THEN OffDay
    ELSE IF k <= d.overlap + 2 THEN E - d.overlap + (k - 2)
    ELSE FileLast + (k - d.overlap - 2)

PxDate(d, k) == PxDateFrom(d, OrdOf(d.lastDate), k)

\* the index of df['Close'].pct_change().dropna(), in its order: the first
\* session has no return, a missing close gives no return
ReturnDates(d) ==
    LET E == OrdOf(d.lastDate)
    IN  IF d.valid THEN [k \in 1..(d.n - 1) |-> PxDateFrom(d, E, k + 1)] ELSE <<>>

\* the loaded factor table has a row for the day x
HasRow(t, x) == x >= t.first /\ x <= t.last /\ x \notin t.absent

\* a joined table: its index in order, and the dates whose row has a
\* missing cell

\* .join(ff_data, how='left').ffill(): every date of the returns is kept, a
\* date without factor row takes the factors of the row before it
JoinFilled(left, t) ==
    [index |-> left,
     missing |-> { left[k] : k \in { j \in DOMAIN left : left[j] < t.first } }]

\* .join(ff_data, how='inner'): the dates of the left index that the factor
\* table has a row for, in the order of the left index; neither the returns
\* nor the loaded factor table has a missing cell
JoinInner(left, t) ==
    [index |-> SelectSeq(left, LAMBDA x : HasRow(t, x)), missing |-> {}]

\* .dropna() of the joined table
DropNA(j) == SelectSeq(j.index, LAMBDA x : x \notin j.missing)

\* the index of df_merged
MergedIndex(d, t) == DropNA(JoinInner(ReturnDates(d), t))

\* the days of a factor file: its first and last day, and the days in
\* between for which it has no row or a row with an empty cell
FileDays(f) ==
    [lo |-> ParseYmd(f.first), hi |-> ParseYmd(f.last),
     gaps |-> { ParseYmd(v) : v \in f.absent \cup f.incomplete }]

\* the file has a row for the day x, with no cell empty
CompleteDay(fd, x) == fd.lo <= x /\ x <= fd.hi /\ x \notin fd.gaps

\* The inputs that can occur together.  The merged table has no more rows
\* than there are returns; `overlap` of the returns fall on days for which
\* either factor file has a complete row.
\* RollingOLS with window=252 has no complete window on fewer than 252
\* rows: its final params are NaN, or it raises.  Zero returns throughout
\* leave a constant regressand, which the intercept fits alone: the
\* loadings are 0 (or NaN on a degenerate factor table).
WellFormed(d) ==
    /\ d.overlap <= NumReturns(d)
    /\ d.turn >= 1
    /\ \A f \in FactorFiles :
           LET rd == ReturnDates(d)
               fd == FileDays(f)
           IN  Cardinality({ j \in DOMAIN rd : CompleteDay(fd, rd[j]) }) = d.overlap
    /\ (d.overlap < Window) =>
           (d.coef = AllNaN \/ d.raises = "regress")
    /\ Flat(d) =>
           (d.coef = AllNaN \/ d.coef = Coef(0, 0, 0, 0, 0, 0))

----------------------------------------------------------------------------
(* Gates of the loop body *)

\* the loop body without its first gate
InsufficientDataNoGate(d) == FALSE

\* the gate without its length test: `df.empty`
InsufficientDataEmptyOnly(d) == d.n = 0

\* `df.empty or len(df) < 252`
InsufficientData(d) == d.n = 0 \/ d.n < MinPriceRows

\* `len(daily_returns) == 0`
NoReturns(d) == NumReturns(d) = 0

\* the gate testing only for an empty merge: `len(df_merged) == 0`
NotEnoughOverlapEmptyOnly(d) == NumMerged(d) = 0

\* `len(df_merged) < 126`
NotEnoughOverlap(d) == NumMerged(d) < MinOverlap

\* the gate testing for infinities instead: `np.isinf(betas).any()`
AnyInf(betas) == \E c \in CoefNames : IsInf(betas[c])

\* `betas.isna().any()`: isna() is true of NaN only, not of an infinity
AnyNaN(betas) == \E c \in CoefNames : IsNaN(betas[c])

\* all_returns_data[ticker] = daily_returns.tail(252): the number of returns kept
KeptReturns(d) ==
    IF NumReturns(d) < ReturnsTail THEN NumReturns(d) ELSE ReturnsTail

\* no handler around the loop body: the exception ends process_stocks
AfterFailureAbort == "crashed"

\* a `return` in the place of the `continue`
AfterSkipReturn == "returned"

\* the handler starting the body of the same ticker again
AfterFailureRetry == "fetched"

\* where control goes after a `continue`, and after the `except Exception`
\* handler has printed: the next iteration of the for loop
AfterSkip == "loop"
AfterFailure == "loop"

----------------------------------------------------------------------------
(* Scoring *)

\* the clamp without its lower bound: min(x, 100)
ClampNoFloor(x) == PyMin(x, 100 * Scale)

\* min(max(x, 0), 100)
Clamp(x) == PyMin(PyMax(x, 0), 100 * Scale)

\* the market score written like the size score: 50 + beta_mkt * 50
ScoreBetaCentred(b) == Clamp(FAdd(50 * Scale, FMul(b, 50)))

\* the quality score with the factor of the size score: 50 + beta_rmw * 50
ScoreQualityHalf(b) == Clamp(FAdd(50 * Scale, FMul(b, 50)))

\* score_beta = min(max((beta_mkt * 50), 0), 100)
ScoreBeta(b) == Clamp(FMul(b, 50))
\* score_size = min(max(50 + (beta_smb * 50), 0), 100)
ScoreSize(b) == Clamp(FAdd(50 * Scale, FMul(b, 50)))
\* score_value = min(max(50 + (beta_hml * 50), 0), 100)
ScoreValue(b) == Clamp(FAdd(50 * Scale, FMul(b, 50)))
\* score_quality = min(max(50 + (beta_rmw * 100), 0), 100)
ScoreQuality(b) == Clamp(FAdd(50 * Scale, FMul(b, 100)))
\* score_mom = min(max(50 + (mom_raw * 100), 0), 100)
ScoreMom(m) == Clamp(FAdd(50 * Scale, FMul(m, 100)))

\* the price ratio without the "- 1"
MomRawRatio(d) ==
    IF d.n > MomLookback
    THEN PriceChange(Px(d, d.n), Px(d, d.n - MomLookback + 1)) + Scale
    ELSE 0

\* mom_raw = (px.iloc[-1] / px.iloc[-126]) - 1 if len(px) > 126 else 0
MomRaw(d) ==
    IF d.n > MomLookback
    THEN PriceChange(Px(d, d.n), Px(d, d.n - MomLookback + 1))
    ELSE 0

\* the if / elif pairs that append to `baskets`, one per factor
BetaLabels(b) ==
    IF FGt(b, 13000) THEN <<"Aggressive High Beta">>
    ELSE IF FLt(b, 7000) THEN <<"Defensive Low Vol">>
    ELSE <<>>
SizeLabels(b) ==
    IF FGt(b, 5000) THEN <<"Small Cap Tilt">>
    ELSE IF FLt(b, -5000) THEN <<"Large Cap Tilt">>
    ELSE <<>>
ValueLabels(b) ==
    IF FGt(b, 3000) THEN <<"Deep Value">>
    ELSE IF FLt(b, -3000) THEN <<"High Growth">>
    ELSE <<>>
QualityLabels(b) ==
    IF FGt(b, 3000) THEN <<"High Quality MOAT">> ELSE <<>>
MomLabels(m) ==
    IF FGt(m, 2000) THEN <<"Momentum Leader">>
    ELSE IF FLt(m, -1000) THEN <<"Falling Knife">>
    ELSE <<>>

\* the five tests chained into one if / elif: the first label found wins
BasketsFirstOnly(betas, mom) ==
    IF BetaLabels(betas.mkt) # <<>> THEN BetaLabels(betas.mkt)
    ELSE IF SizeLabels(betas.smb) # <<>> THEN SizeLabels(betas.smb)
    ELSE IF ValueLabels(betas.hml) # <<>> THEN ValueLabels(betas.hml)
    ELSE IF QualityLabels(betas.rmw) # <<>> THEN QualityLabels(betas.rmw)
    ELSE MomLabels(mom)

\* the momentum block moved in front of the four loading blocks
BasketsMomentumFirst(betas, mom) ==
    MomLabels(mom) \o BetaLabels(betas.mkt) \o SizeLabels(betas.smb)
        \o ValueLabels(betas.hml) \o QualityLabels(betas.rmw)

\* the list `baskets` once the five factors have been tested, in code order
Baskets(betas, mom) ==
    BetaLabels(betas.mkt) \o SizeLabels(betas.smb) \o ValueLabels(betas.hml)
        \o QualityLabels(betas.rmw) \o MomLabels(mom)

\* the join without the "Neutral" default
BasketsStrNoDefault(baskets) == Join("; ", baskets)

\* baskets_str = "; ".join(baskets) if baskets else "Neutral"
BasketsStr(baskets) ==
    IF baskets # <<>> THEN Join("; ", baskets) ELSE "Neutral"

----------------------------------------------------------------------------
(* Trend string and row *)

\* the merged rows RollingOLS(y, X, window=252) fits for the row r: the 252
\* rows ending at r, none when fewer rows end there
WindowRows(r) == IF r >= Window THEN (r - Window + 1)..r ELSE {}

\* rolling_res.params at the merged row r: NaN where no window is complete
RollingParams(d, r) ==
    IF WindowRows(r) = {} THEN AllNaN
    ELSE IF r = NumMerged(d) THEN d.coef
    ELSE Coef(0, d.early + 100 * (r - Window), 0, 0, 0, 0)

\* the row before the last: rolling_res.params.iloc[-2]
PenultimateParams(d) == RollingParams(d, NumMerged(d) - 1)

\* betas = rolling_res.params.iloc[-1]
FinalParams(d) == RollingParams(d, NumMerged(d))

\* rolling_res.params['Mkt-RF'].dropna()
AvailableMkt(d) ==
    SelectSeq([r \in 1..NumMerged(d) |-> RollingParams(d, r).mkt],
              LAMBDA x : ~IsNaN(x))

\* s.iloc[::step]
EveryNth(s, step) ==
    [j \in 1..((Len(s) + step - 1) \div step) |-> s[step * (j - 1) + 1]]

\* s.tail(k)
TailN(s, k) == IF Len(s) <= k THEN s ELSE SubSeq(s, Len(s) - k + 1, Len(s))

\* the trend without the step: .dropna().tail(10)
TrendValuesEveryRow(d) == TailN(AvailableMkt(d), TrendKeep)

\* beta_trend = rolling_res.params['Mkt-RF'].dropna().iloc[::20].tail(10).values
TrendValues(d) == TailN(EveryNth(AvailableMkt(d), TrendStep), TrendKeep)

\* the fields of the row that hold a round(): the scores to 2 decimals,
\* the loadings to 3
RoundedNames ==
    {"Score_Beta", "Score_Size", "Score_Value", "Score_Mom", "Score_Quality",
     "Beta_Raw", "SMB_Raw", "HML_Raw", "RMW_Raw"}

Operand(l, nm) ==
    CASE nm = "Score_Beta" -> l.score_beta
      [] nm = "Score_Size" -> l.score_size
      [] nm = "Score_Value" -> l.score_value
      [] nm = "Score_Mom" -> l.score_mom
      [] nm = "Score_Quality" -> l.score_quality
      [] nm = "Beta_Raw" -> l.betas.mkt
      [] nm = "SMB_Raw" -> l.betas.smb
      [] nm = "HML_Raw" -> l.betas.hml
      [] nm = "RMW_Raw" -> l.betas.rmw

UnitOf(nm) ==
    IF nm \in {"Beta_Raw", "SMB_Raw", "HML_Raw", "RMW_Raw"} THEN 10 ELSE 100

\* the smaller or the larger element of a set of one or two numbers
Pick(S, up) ==
    IF up THEN CHOOSE x \in S : \A y \in S : y <= x
    ELSE CHOOSE x \in S : \A y \in S : x <= y

\* The outcomes of the roundings of one row: of the nine round() calls and
\* of the f"{x:.2f}" of each trend value.  Each is a function of its
\* operand; on a decimal tie both neighbours are outcomes.
Roundings(l) ==
    LET tv == l.beta_trend
        ft == { nm \in RoundedNames :
                  Cardinality(RoundSet(Operand(l, nm), UnitOf(nm))) = 2 }
        tt == { j \in DOMAIN tv : Cardinality(RoundSet(tv[j], 100)) = 2 }
    IN  { [field |-> [nm \in RoundedNames |->
                        Pick(RoundSet(Operand(l, nm), UnitOf(nm)),
                             nm \in ft /\ g[nm])],
           trend |-> [j \in DOMAIN tv |->
                        Pick(RoundSet(tv[j], 100), j \in tt /\ h[j])]] :
          g \in [ft -> BOOLEAN], h \in [tt -> BOOLEAN] }

\* beta_trend_str = ",".join([f"{x:.2f}" for x in beta_trend])
TrendStr(l, f) ==
    Join(",", [j \in DOMAIN l.beta_trend |->
                 Fixed2Str(l.beta_trend[j], f.trend[j])])

\* the dict `row` with RMW_Raw taken from beta_hml
RowRawSwapped(t, l, f) ==
    [Ticker |-> t,
     Last_Date |-> StrfDate(CalDate(l.df_merged[Len(l.df_merged)])),
     Score_Beta |-> f.field["Score_Beta"], Score_Size |-> f.field["Score_Size"],
     Score_Value |-> f.field["Score_Value"], Score_Mom |-> f.field["Score_Mom"],
     Score_Quality |-> f.field["Score_Quality"],
     Beta_Raw |-> f.field["Beta_Raw"], SMB_Raw |-> f.field["SMB_Raw"],
     HML_Raw |-> f.field["HML_Raw"], RMW_Raw |-> f.field["HML_Raw"],
     Baskets |-> l.baskets_str,
     Beta_Trend |-> TrendStr(l, f)]

\* the dict `row`, f giving the outcome of each rounding
Row(t, l, f) ==
    [Ticker |-> t,
     Last_Date |-> StrfDate(CalDate(l.df_merged[Len(l.df_merged)])),
     Score_Beta |-> f.field["Score_Beta"], Score_Size |-> f.field["Score_Size"],
     Score_Value |-> f.field["Score_Value"], Score_Mom |-> f.field["Score_Mom"],
     Score_Quality |-> f.field["Score_Quality"],
     Beta_Raw |-> f.field["Beta_Raw"], SMB_Raw |-> f.field["SMB_Raw"],
     HML_Raw |-> f.field["HML_Raw"], RMW_Raw |-> f.field["RMW_Raw"],
     Baskets |-> l.baskets_str,
     Beta_Trend |-> TrendStr(l, f)]

----------------------------------------------------------------------------
(* Bounds and input sets *)

\* tickers in stock_list.csv
MaxTickers == 2

ZeroCoef == Coef(0, 0, 0, 0, 0, 0)

\* the instruments of a batch run: one per path of the loop body
Profiles ==
    { Inst(0, TRUE, 100, 100, 1, 0, AllNaN, 0, "none", Date1),
      Inst(50, TRUE, 100, 100, 1, 49, AllNaN, 0, "none", Date1),
      Inst(300, FALSE, 100, 100, 1, 0, AllNaN, 0, "none", Date1),
      Inst(300, TRUE, 100, 105, 1, 100, AllNaN, 0, "none", Date1),
      Inst(300, TRUE, 100, 105, 1, 200, AllNaN, 0, "none", Date1),
      Inst(300, TRUE, 100, 105, 1, 200, ZeroCoef, 0, "regress", Date1),
      Inst(300, TRUE, 100, 105, 1, 299, Coef(0, 9000, 0, 0, 0, NaN), 9900, "none", Date2),
      Inst(300, TRUE, 100, 105, 1, 299, Coef(0, PosInf, 0, 0, 0, 0), 9900, "none", Date2),
      Inst(300, TRUE, 100, 105, 1, 299, Coef(NegInf, 9000, 0, 0, 0, 0), 9900, "none", Date2),
      Inst(300, TRUE, 100, 105, 1, 299, ZeroCoef, 0, "download", Date2),
      Inst(400, TRUE, 100, 100, 1, 399, ZeroCoef, 0, "none", Date2),
      Inst(300, TRUE, 100, 105, 1, 299, Coef(10, 15000, 6000, 0, 0, 0), 12350, "none", Date2),
      Inst(380, TRUE, 100, 130, 125, 300, Coef(-10, 9000, 0, -3001, 3001, 20000), 9900, "none", Date1),
      Inst(380, TRUE, 100, 130, 126, 300, Coef(0, 9000, 0, 0, 0, 0), 9900, "none", Date1),
      Inst(470, TRUE, 100, 105, 1, 460, Coef(0, 11000, 0, 0, 0, 0), 8000, "none", Date2) }

\* the instruments of a scoring run: loadings and momenta on both sides of
\* every threshold and clamp bound
MktVals == {NegInf, -20000, 0, 6999, 7000, 10000, 13000, 13001, 15000, 20000, 1000000, PosInf}
SmbVals == {-1000000, -5001, -5000, 0, 5000, 6000}
HmlVals == {-3001, -3000, 0, 3000, 3001}
RmwVals == {-10000, 0, 3000, 3001, 5000}
LastVals == {1, 89, 90, 105, 120, 121, 500}

ScoreInputs ==
    { Inst(n, TRUE, 100, last, 125, n - 1, Coef(0, m, s, h, r, 0), 9900, "none", Date2) :
        n \in {253}, last \in LastVals,
        m \in MktVals, s \in SmbVals, h \in HmlVals, r \in RmwVals }

\* the ticker lists of at most k instruments drawn from S
Batches(S, k) == UNION { [1..j -> S] : j \in 0..k }

\* outcome of the factor download: parsed, no CSV in the archive, or an error
FFStatus == {"ok", "nocsv", "failed"}

----------------------------------------------------------------------------
VARIABLES
    tickers,           \* the ticker list, each ticker with what is fetched for it
    ff,                \* outcome of the factor download
    ff_csv,            \* the CSV of the downloaded archive
    ff_data,           \* the factor table `ff_data`
    rounding,          \* the roundings computed so far, per instrument
    pc,                \* position in the function that is run
    i,                 \* the loop variable `i`: in process_stocks the 1-based
                       \* position of the current ticker
    loc,               \* locals of the loop body
    results,           \* the list `results`
    all_returns_data,  \* the dict `all_returns_data`: ticker -> returns kept
    console,           \* what has been printed, per ticker
    files              \* the files written

\* CBBC.py
VARIABLES
    net,               \* what the successive network calls will meet
    attempt,           \* the loop variable `attempt`
    resp,              \* the response `r` of download_and_parse_v5
    calls,             \* the calls made so far: requests, sleeps, the parse
    ret,               \* what the function returned or raised
    df_hsi,            \* the contracts given to calculate_ladder
    spot,              \* the argument `spot`
    masks,             \* the rows each mask `m`, `m_b` of calculate_ladder selected
    ladder             \* the table `ladder`

cbbc_vars == <<net, attempt, resp, calls, ret, df_hsi, spot, masks, ladder>>

batch_vars ==
    <<tickers, ff, ff_csv, ff_data, rounding, loc, results, all_returns_data,
      console, files>>

vars ==
    <<tickers, ff, ff_csv, ff_data, rounding, pc, i, loc, results,
      all_returns_data, console, files, cbbc_vars>>

\* CBBC.py is not run
CbbcIdle ==
    /\ net = <<>> /\ attempt = 0 /\ resp = "None" /\ calls = <<>> /\ ret = "none"
    /\ df_hsi = <<>> /\ spot = 0 /\ masks = <<>> /\ ladder = <<>>

NoLoc ==
    [nret |-> 0, df_merged |-> <<>>, nmerged |-> 0, betas |-> AllNaN, baskets |-> <<>>,
     baskets_str |-> "", mom_raw |-> 0, score_beta |-> 0, score_size |-> 0,
     score_value |-> 0, score_quality |-> 0, score_mom |-> 0,
     beta_trend |-> <<>>]

Start ==
    /\ ff \in FFStatus
    /\ ff_csv \in (IF ff = "ok" THEN FactorFiles ELSE {NoFile})
    /\ ff_data = NoTable
    /\ rounding = <<>>
    /\ pc = "start"
    /\ i = 0
    /\ loc = NoLoc
    /\ results = <<>>
    /\ all_returns_data = <<>>
    /\ console = <<>>
    /\ files = {}
    /\ CbbcIdle

Init ==
    /\ tickers \in Batches({ d \in Profiles : WellFormed(d) }, MaxTickers)
    /\ Start

ScoreInit ==
    /\ tickers \in Batches({ d \in ScoreInputs : WellFormed(d) }, 1)
    /\ Start

\* a print that ends the processing of ticker i, and the jump that follows
Leave(msg, to) ==
    /\ console' = Append(console, [t |-> i, msg |-> msg])
    /\ pc' = to
    /\ i' = IF to = "loop" THEN i + 1 ELSE i
    /\ loc' = NoLoc

\* tickers = load_stock_list(); the factor download and parse
LoadInputs ==
    /\ pc = "start"
    /\ IF tickers = <<>> THEN pc' = "returned" /\ i' = i /\ ff_data' = ff_data
       ELSE IF ff # "ok" THEN pc' = "returned" /\ i' = i /\ ff_data' = ff_data
       ELSE pc' = "loop" /\ i' = 1 /\ ff_data' = Prepared(ff_csv)
    /\ UNCHANGED <<cbbc_vars, tickers, ff, ff_csv, rounding, loc, results, all_returns_data,
                   console, files>>

\* df = yf.download(...), the Insufficient Data gate, the Close column
Download ==
    /\ pc = "loop"
    /\ i <= Len(tickers)
    /\ LET d == tickers[i]
       IN  IF d.raises = "download" THEN Leave("Failed", AfterFailure)
           ELSE IF InsufficientData(d) THEN Leave("Skipped (Insufficient Data)", AfterSkip)
           ELSE pc' = "fetched" /\ UNCHANGED <<i, loc, console>>
    /\ UNCHANGED <<cbbc_vars, tickers, ff, ff_csv, ff_data, rounding, results, all_returns_data, files>>

\* the returns step without line 126: no entry is kept for the ticker
ReturnsNotKept ==
    /\ pc = "fetched"
    /\ LET d == tickers[i]
       IN  IF NoReturns(d)
           THEN Leave("Skipped (No Returns)", AfterSkip)
           ELSE /\ pc' = "returns"
                /\ loc' = [loc EXCEPT !.nret = NumReturns(d)]
                /\ UNCHANGED <<i, console>>
    /\ UNCHANGED <<cbbc_vars, tickers, ff, ff_csv, ff_data, rounding, results, all_returns_data, files>>

\* daily_returns = df['Close'].pct_change().dropna(), the No Returns gate,
\* all_returns_data[ticker] = daily_returns.tail(252)
Returns ==
    /\ pc = "fetched"
    /\ LET d == tickers[i]
       IN  IF NoReturns(d)
           THEN Leave("Skipped (No Returns)", AfterSkip)
                /\ UNCHANGED all_returns_data
           ELSE /\ pc' = "returns"
                /\ loc' = [loc EXCEPT !.nret = NumReturns(d)]
                /\ all_returns_data' = (i :> KeptReturns(d)) @@ all_returns_data
                /\ UNCHANGED <<i, console>>
    /\ UNCHANGED <<cbbc_vars, tickers, ff, ff_csv, ff_data, rounding, results, files>>

\* the merge assigning its result to ff_data: the factor table is cut to
\* the days of the current instrument
MergeInPlace ==
    /\ pc = "returns"
    /\ LET d == tickers[i]
           m == MergedIndex(d, ff_data)
       IN  /\ ff_data' = IF m = <<>> THEN [ff_data EXCEPT !.last = ff_data.first - 1]
                          ELSE [ff_data EXCEPT !.first = m[1], !.last = m[Len(m)]]
           /\ IF NotEnoughOverlap(d)
              THEN Leave("Skipped (Not enough overlapping data)", AfterSkip)
              ELSE /\ pc' = "aligned"
                   /\ loc' = [loc EXCEPT !.df_merged = m, !.nmerged = NumMerged(d)]
                   /\ UNCHANGED <<i, console>>
    /\ UNCHANGED <<cbbc_vars, tickers, ff, ff_csv, rounding, results, all_returns_data, files>>

\* df_merged = ...join(ff_data, how='inner').dropna(), the overlap gate
Merge ==
    /\ pc = "returns"
    /\ LET d == tickers[i]
       IN  IF NotEnoughOverlap(d)
           THEN Leave("Skipped (Not enough overlapping data)", AfterSkip)
           ELSE /\ pc' = "aligned"
                /\ loc' = [loc EXCEPT !.df_merged = MergedIndex(d, ff_data),
                                       !.nmerged = NumMerged(d)]
                /\ UNCHANGED <<i, console>>
    /\ UNCHANGED <<cbbc_vars, tickers, ff, ff_csv, ff_data, rounding, results, all_returns_data, files>>

\* RollingOLS(y, X, window=252).fit(), betas = params.iloc[-1], the NaN gate
Regress ==
    /\ pc = "aligned"
    /\ LET d == tickers[i]
       IN  IF d.raises = "regress" THEN Leave("Failed", AfterFailure)
           ELSE IF AnyNaN(FinalParams(d))
                THEN Leave("Skipped (NaN in regression)", AfterSkip)
           ELSE /\ pc' = "regressed"
                /\ loc' = [loc EXCEPT !.betas = FinalParams(d)]
                /\ UNCHANGED <<i, console>>
    /\ UNCHANGED <<cbbc_vars, tickers, ff, ff_csv, ff_data, rounding, results, all_returns_data, files>>

\* the labels appended for the tickers of the rows rs
RECURSIVE LabelsSoFar(_, _)
LabelsSoFar(ts, rs) ==
    IF rs = <<>> THEN <<>>
    ELSE LET d == ts[rs[Len(rs)].Ticker]
         IN  LabelsSoFar(ts, SubSeq(rs, 1, Len(rs) - 1))
                 \o Baskets(FinalParams(d), MomRaw(d))

\* section 5 with `baskets = []` before the loop instead of inside it: the
\* labels of the earlier tickers stay in the list
ScoreAccumulating ==
    /\ pc = "regressed"
    /\ LET d == tickers[i]
           b == loc.betas
           mom == MomRaw(d)
           baskets == LabelsSoFar(tickers, results) \o Baskets(b, mom)
       IN  loc' = [loc EXCEPT !.score_beta = ScoreBeta(b.mkt),
                              !.score_size = ScoreSize(b.smb),
                              !.score_value = ScoreValue(b.hml),
                              !.score_quality = ScoreQuality(b.rmw),
                              !.mom_raw = mom,
                              !.score_mom = ScoreMom(mom),
                              !.baskets = baskets,
                              !.baskets_str = BasketsStr(baskets),
                              !.beta_trend = TrendValues(d)]
    /\ pc' = "scored"
    /\ UNCHANGED <<cbbc_vars, tickers, ff, ff_csv, ff_data, rounding, i, results,
                   all_returns_data, console, files>>

\* section 5 of the loop body: scores, baskets, momentum, and the values
\* `beta_trend` of the trend
Score ==
    /\ pc = "regressed"
    /\ LET d == tickers[i]
           b == loc.betas
           mom == MomRaw(d)
           baskets == Baskets(b, mom)
       IN  loc' = [loc EXCEPT !.score_beta = ScoreBeta(b.mkt),
                              !.score_size = ScoreSize(b.smb),
                              !.score_value = ScoreValue(b.hml),
                              !.score_quality = ScoreQuality(b.rmw),
                              !.mom_raw = mom,
                              !.score_mom = ScoreMom(mom),
                              !.baskets = baskets,
                              !.baskets_str = BasketsStr(baskets),
                              !.beta_trend = TrendValues(d)]
    /\ pc' = "scored"
    /\ UNCHANGED <<cbbc_vars, tickers, ff, ff_csv, ff_data, rounding, i, results, all_returns_data, console, files>>

\* the row put in front of the list: results.insert(0, row)
PrependRow(rs, row) == <<row>> \o rs

\* results.append(row)
AppendRow(rs, row) == Append(rs, row)

\* the row step with df_out.to_csv inside the loop: the factor file is
\* rewritten at every append
AssembleSaving ==
    /\ pc = "scored"
    /\ LET d == tickers[i]
       IN  \E f \in Roundings(loc) :
               /\ d \in DOMAIN rounding => f = rounding[d]
               /\ rounding' = (d :> f) @@ rounding
               /\ results' = AppendRow(results, Row(i, loc, f))
    /\ console' = Append(console, [t |-> i, msg |-> "Done."])
    /\ pc' = "loop"
    /\ i' = i + 1
    /\ loc' = NoLoc
    /\ files' = files \cup {"stock_factor_data.csv"}
    /\ UNCHANGED <<cbbc_vars, tickers, ff, ff_csv, ff_data, all_returns_data>>

\* the trend string of the trend values, row = {...}, results.append(row),
\* print("Done.")
Assemble ==
    /\ pc = "scored"
    /\ LET d == tickers[i]
       IN  \E f \in Roundings(loc) :
               /\ d \in DOMAIN rounding => f = rounding[d]
               /\ rounding' = (d :> f) @@ rounding
               /\ results' = AppendRow(results, Row(i, loc, f))
    /\ console' = Append(console, [t |-> i, msg |-> "Done."])
    /\ pc' = "loop"
    /\ i' = i + 1
    /\ loc' = NoLoc
    /\ UNCHANGED <<cbbc_vars, tickers, ff, ff_csv, ff_data, all_returns_data, files>>

\* section 6 without its two tests: both files written whatever was collected
SaveAlways ==
    /\ pc = "loop"
    /\ i > Len(tickers)
    /\ files' = {"stock_factor_data.csv", "stock_returns_data.csv"}
    /\ pc' = "done"
    /\ UNCHANGED <<cbbc_vars, tickers, ff, ff_csv, ff_data, rounding, i, loc, results, all_returns_data, console>>

\* section 6, after the loop: the two to_csv calls
Save ==
    /\ pc = "loop"
    /\ i > Len(tickers)
    /\ files' = (IF results # <<>> THEN {"stock_factor_data.csv"} ELSE {})
                \cup (IF DOMAIN all_returns_data # {}
                      THEN {"stock_returns_data.csv"} ELSE {})
    /\ pc' = "done"
    /\ UNCHANGED <<cbbc_vars, tickers, ff, ff_csv, ff_data, rounding, i, loc, results, all_returns_data, console>>

Next ==
    \/ LoadInputs
    \/ Download
    \/ Returns
    \/ Merge
    \/ Regress
    \/ Score
    \/ Assemble
    \/ Save

Spec == Init /\ [][Next]_vars

\* the same program on one instrument drawn from the scoring inputs
ScoreSpec == ScoreInit /\ [][Next]_vars

\* the interpreter always runs the next statement
FairSpec == Init /\ [][Next]_vars /\ WF_vars(Next)

----------------------------------------------------------------------------
(* Vocabulary of the properties *)

ScoreFields == {"Score_Beta", "Score_Size", "Score_Value", "Score_Quality", "Score_Mom"}

RowsOf(k) == { r \in 1..Len(results) : results[r].Ticker = k }

\* what has been printed about ticker k, in order
Outcomes(k) == SelectSeq(console, LAMBDA e : e.t = k)

\* ticker k has left the loop body
Finished(k) == k < i \/ pc = "done"

InBody == pc \in {"fetched", "returns", "aligned", "regressed", "scored"}

\* the threshold table of the Score Mapper, one independent test per label
LabelOrder ==
    << "Aggressive High Beta", "Defensive Low Vol", "Small Cap Tilt",
       "Large Cap Tilt", "Deep Value", "High Growth", "High Quality MOAT",
       "Momentum Leader", "Falling Knife" >>

LabelHolds(l, b, mom) ==
    CASE l = "Aggressive High Beta" -> b.mkt > 13000
      [] l = "Defensive Low Vol"    -> b.mkt < 7000
      [] l = "Small Cap Tilt"       -> b.smb > 5000
      [] l = "Large Cap Tilt"       -> b.smb < -5000
      [] l = "Deep Value"           -> b.hml > 3000
      [] l = "High Growth"          -> b.hml < -3000
      [] l = "High Quality MOAT"    -> b.rmw > 3000
      [] l = "Momentum Leader"      -> mom > 2000
      [] l = "Falling Knife"        -> mom < -1000

TableLabels(b, mom) ==
    { l \in { LabelOrder[j] : j \in DOMAIN LabelOrder } : LabelHolds(l, b, mom) }

TableLabelSeq(b, mom) == SelectSeq(LabelOrder, LAMBDA l : LabelHolds(l, b, mom))

Elems(sq) == { sq[j] : j \in DOMAIN sq }

\* last price over the price 125 positions before it, minus 1
InputMom(d) == ((d.last * Scale) \div Px(d, d.n - 125)) - Scale

----------------------------------------------------------------------------
(* C1 *)

\* C1: every score written to a result row (Score_Beta, Score_Size,
\* Score_Value, Score_Quality, Score_Mom) lies in [0, 100], however large or
\* small the loading or the momentum.
C1_ScoresInRange ==
    \A r \in 1..Len(results) : \A f \in ScoreFields :
        0 <= results[r][f] /\ results[r][f] <= 100 * Scale

\* a row of an instrument with an infinite market loading, a size loading
\* of -100 and a momentum of +400%
C1_Witness ==
    \E r \in 1..Len(results) :
        LET d == tickers[results[r].Ticker]
        IN  /\ d.coef.mkt = PosInf /\ d.coef.smb = -1000000 /\ d.last = 500
            /\ results[r].Score_Beta = 100 * Scale
            /\ results[r].Score_Size = 0
            /\ results[r].Score_Mom = 100 * Scale

----------------------------------------------------------------------------
(* C2 *)

\* scenario A: 400 sessions, all at one price
ScenarioA(d) == d.n = 400 /\ d.valid /\ Flat(d)

NearZero(x) == IsFinite(x) /\ Abs(x) <= 5

\* C2 as stated: a row of a scenario-A instrument has raw loadings of about
\* 0, a score_beta of 50, a score_momentum of 50 and the basket "Neutral",
\* and its momentum was 0 when it was scored.
C2_AsStated ==
    /\ \A r \in 1..Len(results) :
         ScenarioA(tickers[results[r].Ticker]) =>
           /\ NearZero(results[r].Beta_Raw) /\ NearZero(results[r].SMB_Raw)
           /\ NearZero(results[r].HML_Raw) /\ NearZero(results[r].RMW_Raw)
           /\ results[r].Score_Beta = 50 * Scale
           /\ results[r].Score_Mom = 50 * Scale
           /\ results[r].Baskets = "Neutral"
    /\ (pc = "scored" /\ ScenarioA(tickers[i])) => loc.mom_raw = 0

\* C2, amended: a row of a scenario-A instrument has raw loadings of about
\* 0, a score_beta of 0 (the clamp of 0 * 50), a score_momentum of 50 and
\* the basket "Defensive Low Vol" (a market loading of 0 is below 0.7), and
\* its momentum was 0 when it was scored.
C2_ScenarioA ==
    /\ \A r \in 1..Len(results) :
         ScenarioA(tickers[results[r].Ticker]) =>
           /\ NearZero(results[r].Beta_Raw) /\ NearZero(results[r].SMB_Raw)
           /\ NearZero(results[r].HML_Raw) /\ NearZero(results[r].RMW_Raw)
           /\ results[r].Score_Beta = 0
           /\ results[r].Score_Mom = 50 * Scale
           /\ results[r].Baskets = "Defensive Low Vol"
    /\ (pc = "scored" /\ ScenarioA(tickers[i])) => loc.mom_raw = 0

\* a scenario-A instrument has been assembled
C2_Witness ==
    \E r \in 1..Len(results) :
        /\ ScenarioA(tickers[results[r].Ticker])
        /\ results[r].Score_Beta = 0
        /\ results[r].Baskets = "Defensive Low Vol"

----------------------------------------------------------------------------
(* C3 *)

\* C3: the market-beta score is the clamp of beta_market * 50 to [0, 100]:
\* 100 for a loading of 2.0 or more, 0 for a loading of 0 or less (-2.0
\* included), beta_market * 50 in between (50 for a loading of 1.0).
C3_BetaScore ==
    pc = "scored" =>
        LET b == tickers[i].coef.mkt
        IN  /\ (b >= 20000) => loc.score_beta = 100 * Scale
            /\ (b <= 0) => loc.score_beta = 0
            /\ (0 < b /\ b < 20000) => loc.score_beta = b * 50
            /\ (b = 10000) => loc.score_beta = 50 * Scale

\* an instrument with a market loading of exactly 2.0 has been scored 100
C3_Witness ==
    /\ pc = "scored"
    /\ tickers[i].coef.mkt = 20000
    /\ loc.score_beta = 100 * Scale

----------------------------------------------------------------------------
(* C4 *)

\* C4: the labels in `baskets` are exactly the labels of the threshold table
\* whose condition holds, each tested on its own with a strict inequality,
\* none twice; a market loading of 1.5 and a size loading of 0.6 with the
\* rest in their neutral bands give exactly Aggressive High Beta and Small
\* Cap Tilt, and not Neutral.
C4_LabelsMatchTable ==
    pc = "scored" =>
        LET b == tickers[i].coef
        IN  /\ Elems(loc.baskets) = TableLabels(b, loc.mom_raw)
            /\ Len(loc.baskets) = Cardinality(Elems(loc.baskets))
            /\ (b.mkt = 15000 /\ b.smb = 6000 /\ b.hml = 0 /\ b.rmw = 0
                  /\ loc.mom_raw = 500) =>
                 /\ Elems(loc.baskets) = {"Aggressive High Beta", "Small Cap Tilt"}
                 /\ loc.baskets_str # "Neutral"

\* the instrument of the example has been scored
C4_Witness ==
    /\ pc = "scored"
    /\ tickers[i].coef.mkt = 15000 /\ tickers[i].coef.smb = 6000
    /\ tickers[i].coef.hml = 0 /\ tickers[i].coef.rmw = 0
    /\ loc.mom_raw = 500
    /\ Elems(loc.baskets) = {"Aggressive High Beta", "Small Cap Tilt"}

----------------------------------------------------------------------------
(* C5 *)

\* C5: the basket string of a row is "Neutral" exactly when no label of the
\* threshold table applies to the instrument; otherwise it is the join of
\* the labels that apply, so "Neutral" never accompanies a label; it is
\* never empty.
C5_NeutralIffNoLabel ==
    \A r \in 1..Len(results) :
        LET d == tickers[results[r].Ticker]
            labels == TableLabelSeq(d.coef, InputMom(d))
        IN  /\ results[r].Baskets = "Neutral" <=> labels = <<>>
            /\ labels # <<>> => results[r].Baskets = Join("; ", labels)
            /\ results[r].Baskets # ""

\* a row "Neutral" of an instrument that sits on every threshold (market
\* 1.3, size 0.5, value 0.3, quality 0.3, momentum 20%) without passing it
C5_Witness ==
    \E r \in 1..Len(results) :
        LET d == tickers[results[r].Ticker]
        IN  /\ d.coef.mkt = 13000 /\ d.coef.smb = 5000 /\ d.coef.hml = 3000
            /\ d.coef.rmw = 3000 /\ d.last = 120
            /\ results[r].Baskets = "Neutral"

----------------------------------------------------------------------------
(* C6 *)

SkipMessages ==
    { "Skipped (Insufficient Data)", "Skipped (No Returns)",
      "Skipped (Not enough overlapping data)", "Skipped (NaN in regression)" }

\* a price table of fewer than 126 sessions, downloaded without an error
ShortHistory(d) == 0 < d.n /\ d.n < 126 /\ d.raises # "download"

\* C6 as stated: an instrument with fewer than 126 sessions of prices is
\* not skipped; its momentum is taken as 0 and its processing continues.
C6_AsStated ==
    \A k \in DOMAIN tickers :
        (ShortHistory(tickers[k]) /\ Finished(k)) =>
            \A j \in 1..Len(Outcomes(k)) : Outcomes(k)[j].msg \notin SkipMessages

\* C6, amended: an instrument with fewer than 126 sessions of prices raises
\* no error but is skipped at the Insufficient Data gate (fewer than 252
\* rows): it never reaches the returns, the merge or the momentum, leaves
\* neither a row nor a returns entry, and the batch goes on to the next
\* ticker.
C6_ShortHistorySkipped ==
    \A k \in DOMAIN tickers :
        ShortHistory(tickers[k]) =>
            /\ (k = i) => ~InBody
            /\ Finished(k) =>
                 /\ Len(Outcomes(k)) = 1
                 /\ Outcomes(k)[1].msg = "Skipped (Insufficient Data)"
                 /\ RowsOf(k) = {}
                 /\ k \notin DOMAIN all_returns_data

\* an instrument of 50 sessions was skipped and the ticker after it was
\* assembled
C6_Witness ==
    /\ Len(tickers) = 2
    /\ tickers[1].n = 50
    /\ pc = "done"
    /\ Outcomes(1) = << [t |-> 1, msg |-> "Skipped (Insufficient Data)"] >>
    /\ RowsOf(2) # {}

----------------------------------------------------------------------------
(* C7 *)

\* reaches the merge, and the merged table is short of the minimum
ShortOverlap(d) ==
    /\ d.raises # "download" /\ ~(d.n = 0 \/ d.n < 252) /\ d.valid
    /\ d.overlap < 126

\* C7: an instrument whose merged table has fewer than 126 rows is skipped
\* there: it goes no further than the merge, is printed as skipped once and
\* only once (no retry), and has no row in the results.
C7_ShortOverlapSkipped ==
    \A k \in DOMAIN tickers :
        ShortOverlap(tickers[k]) =>
            /\ (k = i) => pc \in {"loop", "fetched", "returns"}
            /\ Len(Outcomes(k)) <= 1
            /\ RowsOf(k) = {}
            /\ Finished(k) =>
                 Outcomes(k) =
                     << [t |-> k, msg |-> "Skipped (Not enough overlapping data)"] >>

\* the run has ended with an instrument of 100 merged rows skipped
C7_Witness ==
    /\ pc = "done"
    /\ \E k \in DOMAIN tickers :
         /\ tickers[k].overlap = 100
         /\ Outcomes(k) = << [t |-> k, msg |-> "Skipped (Not enough overlapping data)"] >>
         /\ RowsOf(k) = {}

----------------------------------------------------------------------------
(* C8 *)

\* C8 as stated: an instrument with a NaN or infinite coefficient in the
\* final rolling estimate (a loading or the intercept) has no row.
C8_NonFiniteSkipped ==
    \A r \in 1..Len(results) :
        \A c \in CoefNames : IsFinite(tickers[results[r].Ticker].coef[c])

----------------------------------------------------------------------------
(* C9 *)

\* every ticker has been processed exactly once: one final print each
AllProcessedOnce == \A k \in DOMAIN tickers : Len(Outcomes(k)) = 1

\* C9: once the loop has been entered, whatever skip or exception an
\* instrument meets, the run reaches the end of the save step with every
\* ticker of the list processed exactly once.
C9_BatchCompletes == (pc = "loop") ~> (pc = "done" /\ AllProcessedOnce)

\* the run has ended, the first ticker failed with an exception and the
\* second was assembled
C9_Witness ==
    /\ pc = "done"
    /\ Len(tickers) = 2
    /\ Outcomes(1) = << [t |-> 1, msg |-> "Failed"] >>
    /\ Outcomes(2) = << [t |-> 2, msg |-> "Done."] >>

----------------------------------------------------------------------------
(* C10 *)

ClaimedRowFields ==
    { "Ticker", "Last_Date", "Baskets", "Beta_Trend",
      "Score_Beta", "Score_Size", "Score_Value", "Score_Quality", "Score_Mom",
      "Beta_Raw", "SMB_Raw", "HML_Raw", "RMW_Raw", "CMA_Raw" }

WrittenRowFields == ClaimedRowFields \ {"CMA_Raw"}

\* the printed form of the two dates of the inputs
DateText(dt) == IF dt = Date1 THEN "2024-12-31" ELSE "2025-01-03"

\* x rounded to 3 decimals
Rounded3(raw, x) ==
    IF IsFinite(x) THEN raw % 10 = 0 /\ Abs(raw - x) <= 5 ELSE raw = x

----------------------------------------------------------------------------
(* C11 *)

\* the most recent close over the close 126 sessions before it, minus 1
Mom126(d) == ((Px(d, d.n) * Scale) \div Px(d, d.n - 126)) - Scale

\* C11 as stated: the raw momentum of a scored instrument is the most recent
\* close over the close 126 sessions before the most recent one, minus 1.
C11_Lookback126 ==
    pc = "scored" => loc.mom_raw = Mom126(tickers[i])

----------------------------------------------------------------------------
(* C12 *)

\* 50 + x * k cut to [0, 100]; an infinite x goes to the bound on its side
AffineClamped(x, k) ==
    IF x = PosInf THEN 100 * Scale
    ELSE IF x = NegInf THEN 0
    ELSE LET y == 50 * Scale + x * k
         IN  IF y < 0 THEN 0 ELSE IF y > 100 * Scale THEN 100 * Scale ELSE y

\* C12: the size and value scores are 50 + beta * 50, the quality score is
\* 50 + beta * 100 and the momentum score is 50 + raw momentum * 100, each
\* cut to [0, 100], for every loading and momentum that reaches scoring.
C12_AffineScores ==
    pc = "scored" =>
        LET b == tickers[i].coef
        IN  /\ loc.score_size = AffineClamped(b.smb, 50)
            /\ loc.score_value = AffineClamped(b.hml, 50)
            /\ loc.score_quality = AffineClamped(b.rmw, 100)
            /\ loc.score_mom = AffineClamped(loc.mom_raw, 100)

\* an instrument with size -0.5001, value 0.3001, quality 0.3001 and a
\* momentum of 21% has been scored 24.995, 65.005, 80.01 and 71
C12_Witness ==
    /\ pc = "scored"
    /\ tickers[i].coef.smb = -5001 /\ tickers[i].coef.hml = 3001
    /\ tickers[i].coef.rmw = 3001 /\ loc.mom_raw = 2100
    /\ loc.score_size = 249950 /\ loc.score_value = 650050
    /\ loc.score_quality = 800100 /\ loc.score_mom = 710000

----------------------------------------------------------------------------
(* C13: each instrument of the ticker list has at most one row in          *)
(* `results`; a step only ever appends to `results`, leaving the rows      *)
(* already there as they are; and the files are written in one step only,  *)
(* the one that follows the last iteration of the loop, so the factor file *)
(* exists only once the run is done.                                       *)

AppendsOnly ==
    /\ Len(results') >= Len(results)
    /\ SubSeq(results', 1, Len(results)) = results

WritesAfterLoopOnly ==
    files' # files =>
        /\ files = {}
        /\ pc = "loop" /\ i > Len(tickers)
        /\ pc' = "done"

C13_RowsOnceSavedOnce ==
    /\ [](\A k \in DOMAIN tickers : Cardinality(RowsOf(k)) <= 1)
    /\ []("stock_factor_data.csv" \in files => pc = "done")
    /\ [][AppendsOnly /\ WritesAfterLoopOnly]_vars

\* two rows appended one after the other, then saved
C13_Witness ==
    /\ pc = "done"
    /\ Len(results) = 2
    /\ Cardinality(RowsOf(1)) = 1 /\ Cardinality(RowsOf(2)) = 1
    /\ "stock_factor_data.csv" \in files

----------------------------------------------------------------------------
(* C14: what is printed for an instrument, and its row, are a function of  *)
(* the instrument's own inputs and of the factor table alone: whatever the *)
(* other instruments of the batch, their order and their outcomes, a step  *)
(* that prints or appends a row prints ExpectedMsg of the current          *)
(* instrument and appends the row built from its ExpectedLoc, or no row    *)
(* when the message is not "Done."; and two entries of the batch with the  *)
(* same inputs get the same message and rows that agree in every field     *)
(* but the ticker.                                                         *)

\* the final print of an instrument, from its inputs and the factor table
ExpectedMsg(d, t) ==
    IF d.raises = "download" THEN "Failed"
    ELSE IF d.n < 252 THEN "Skipped (Insufficient Data)"
    ELSE IF ReturnDates(d) = <<>> THEN "Skipped (No Returns)"
    ELSE IF Len(MergedIndex(d, t)) < 126 THEN "Skipped (Not enough overlapping data)"
    ELSE IF d.raises = "regress" THEN "Failed"
    ELSE IF \E c \in CoefNames : IsNaN(FinalParams(d)[c]) THEN "Skipped (NaN in regression)"
    ELSE "Done."

\* the locals of the loop body when the row is built, from the same
ExpectedLoc(d, t) ==
    LET b == FinalParams(d)
        mom == MomRaw(d)
        labels == Baskets(b, mom)
        merged == MergedIndex(d, t)
    IN  [nret |-> NumReturns(d), df_merged |-> merged,
         nmerged |-> Len(merged), betas |-> b,
         baskets |-> labels, baskets_str |-> BasketsStr(labels),
         mom_raw |-> mom, score_beta |-> ScoreBeta(b.mkt),
         score_size |-> ScoreSize(b.smb), score_value |-> ScoreValue(b.hml),
         score_quality |-> ScoreQuality(b.rmw), score_mom |-> ScoreMom(mom),
         beta_trend |-> TrendValues(d)]

\* a row with its ticker blanked
Anonymous(row) == [row EXCEPT !.Ticker = 0]

\* a step that prints or appends does so for the current instrument, from
\* its inputs and the factor table
OutcomeFromOwnInputs ==
    (console' # console \/ results' # results) =>
        LET d == tickers[i]
            msg == ExpectedMsg(d, ff_data)
        IN  /\ i \in DOMAIN tickers
            /\ console' = Append(console, [t |-> i, msg |-> msg])
            /\ IF msg = "Done."
               THEN /\ d \in DOMAIN rounding'
                    /\ results' =
                         Append(results, Row(i, ExpectedLoc(d, ff_data), rounding'[d]))
               ELSE results' = results

C14_OwnInputsOnly ==
    /\ [](\A j, k \in DOMAIN tickers :
            (Finished(j) /\ Finished(k) /\ tickers[j] = tickers[k]) =>
                /\ Outcomes(j) = << [t |-> j, msg |-> Outcomes(k)[1].msg] >>
                /\ { Anonymous(results[r]) : r \in RowsOf(j) }
                       = { Anonymous(results[r]) : r \in RowsOf(k) })
    /\ [][OutcomeFromOwnInputs]_vars

\* the same instrument at both places of a batch, its trend values on
\* decimal ties, after a run that built a row for each
C14_Witness ==
    /\ pc = "done"
    /\ Len(tickers) = 2 /\ tickers[1] = tickers[2]
    /\ Len(results) = 2
    /\ Cardinality(RoundSet(TrendValues(tickers[1])[1], 100)) = 2
    /\ Anonymous(results[1]) = Anonymous(results[2])

----------------------------------------------------------------------------
(* C15: an instrument whose download returns an empty table is skipped     *)
(* with the Insufficient Data message, not through the exception handler;  *)
(* it gets no row and no returns entry, and the step that skips it moves   *)
(* the loop to the next ticker, leaving `results` as it was.               *)

EmptyTable(d) == d.n = 0 /\ d.raises # "download"

SkipsEmptyTable ==
    (pc = "loop" /\ i <= Len(tickers) /\ EmptyTable(tickers[i])) =>
        /\ pc' = "loop" /\ i' = i + 1
        /\ results' = results
        /\ console' = Append(console, [t |-> i, msg |-> "Skipped (Insufficient Data)"])

C15_EmptyTableSkipped ==
    /\ [](\A k \in DOMAIN tickers :
            (pc # "start" /\ Finished(k) /\ EmptyTable(tickers[k])) =>
                /\ Outcomes(k) = << [t |-> k, msg |-> "Skipped (Insufficient Data)"] >>
                /\ RowsOf(k) = {}
                /\ k \notin DOMAIN all_returns_data)
    /\ [][SkipsEmptyTable]_vars

\* an empty table first, then an instrument that gets its row
C15_Witness ==
    /\ pc = "done"
    /\ Len(tickers) = 2 /\ EmptyTable(tickers[1])
    /\ Outcomes(1) = << [t |-> 1, msg |-> "Skipped (Insufficient Data)"] >>
    /\ RowsOf(1) = {} /\ RowsOf(2) # {}

----------------------------------------------------------------------------
(* C16, as stated: an instrument leaves the stages only by the overlap     *)
(* skip, by the skip on its coefficients, or assembled.                    *)

C16_AsStated ==
    \A k \in DOMAIN tickers :
        (pc # "start" /\ Finished(k)) =>
            /\ Len(Outcomes(k)) = 1
            /\ Outcomes(k)[1].msg \in
                  {"Skipped (Not enough overlapping data)",
                   "Skipped (NaN in regression)", "Done."}

(* C16, amended: the body of the loop takes an instrument through the      *)
(* stages fetched, returns, aligned, regressed, scored, one stage per      *)
(* step and never backwards; it leaves them at the download (Failed, or    *)
(* skipped for insufficient data), at the returns (skipped, no returns),   *)
(* at the alignment (skipped, overlap), at the regression (Failed, or      *)
(* skipped for a NaN coefficient) or assembled after scoring; it ends with *)
(* exactly one of these outcomes and is never taken up again.              *)

Rank(p) ==
    CASE p = "loop" -> 0 [] p = "fetched" -> 1 [] p = "returns" -> 2
      [] p = "aligned" -> 3 [] p = "regressed" -> 4 [] p = "scored" -> 5

\* the stage an instrument is left from, with what is printed
Exits ==
    { <<"loop", "Failed">>, <<"loop", "Skipped (Insufficient Data)">>,
      <<"fetched", "Skipped (No Returns)">>,
      <<"returns", "Skipped (Not enough overlapping data)">>,
      <<"aligned", "Failed">>, <<"aligned", "Skipped (NaN in regression)">>,
      <<"scored", "Done.">> }

StageStep ==
    (pc \in {"loop", "fetched", "returns", "aligned", "regressed", "scored"}
        /\ i <= Len(tickers)) =>
        \/ /\ i' = i
           /\ pc' \in {"fetched", "returns", "aligned", "regressed", "scored"}
           /\ Rank(pc') = Rank(pc) + 1
           /\ console' = console /\ results' = results
        \/ /\ i' = i + 1
           /\ pc' = "loop"
           /\ \E m \in {"Failed", "Skipped (Insufficient Data)", "Skipped (No Returns)",
                         "Skipped (Not enough overlapping data)",
                         "Skipped (NaN in regression)", "Done."} :
                 /\ <<pc, m>> \in Exits
                 /\ console' = Append(console, [t |-> i, msg |-> m])
                 /\ Len(results') = Len(results) + (IF m = "Done." THEN 1 ELSE 0)

C16_StagesInOrder ==
    /\ [](\A k \in DOMAIN tickers :
            (pc # "start" /\ Finished(k)) =>
                /\ Len(Outcomes(k)) = 1
                /\ RowsOf(k) # {} <=> Outcomes(k)[1].msg = "Done.")
    /\ [][StageStep]_vars

\* one instrument left at the returns, one taken through every stage
C16_Witness ==
    /\ pc = "done"
    /\ Len(tickers) = 2
    /\ Outcomes(1) = << [t |-> 1, msg |-> "Skipped (No Returns)"] >>
    /\ Outcomes(2) = << [t |-> 2, msg |-> "Done."] >>
    /\ RowsOf(2) # {}

----------------------------------------------------------------------------
(* C17: the coefficients that are scored are the estimate of the last      *)
(* merged row, whose window is the 252 merged rows ending at that row; no  *)
(* row of fewer than 252 merged rows before or at it has an estimate; the  *)
(* last merged row is the latest date that both the returns and the factor *)
(* table hold, and Last_Date of the row is that date.                      *)

HasEstimate(d, r) == \E c \in CoefNames : ~IsNaN(RollingParams(d, r)[c])

\* x is the latest day that is both a day of the returns and a row of the
\* factor table
LatestCommonDay(d, t, x) ==
    LET rd == ReturnDates(d)
    IN  /\ \E j \in DOMAIN rd : rd[j] = x
        /\ x \in TableDates(t)
        /\ \A j \in DOMAIN rd : rd[j] > x => rd[j] \notin TableDates(t)

\* the row a step appends carries the latest common day of its instrument
DatedLatest ==
    results' # results =>
        LET d == tickers[i]
            row == results'[Len(results')]
        IN  /\ LatestCommonDay(d, ff_data, OrdOf(d.lastDate))
            /\ row.Last_Date = DateText(d.lastDate)

C17_LatestWindow ==
    /\ [](pc \in {"regressed", "scored"} =>
            LET d == tickers[i]
                last == Len(loc.df_merged)
            IN  /\ loc.betas = RollingParams(d, last)
                /\ WindowRows(last) = (last - 251)..last
                /\ Cardinality(WindowRows(last)) = 252
                /\ \A r \in 1..last : HasEstimate(d, r) => r >= 252
                /\ LatestCommonDay(d, ff_data, loc.df_merged[last]))
    /\ [][DatedLatest]_vars

\* 300 merged rows under 379 returns: the estimate of the last row is
\* scored, the row before it has another estimate, and the latest price is
\* later than the last merged row
C17_Witness ==
    /\ pc = "scored"
    /\ Len(loc.df_merged) = 300
    /\ loc.betas = tickers[i].coef
    /\ RollingParams(tickers[i], 299).mkt # loc.betas.mkt
    /\ ~HasEstimate(tickers[i], 251) /\ HasEstimate(tickers[i], 252)
    /\ PxDate(tickers[i], tickers[i].n) > loc.df_merged[300]

----------------------------------------------------------------------------
(* C18: the merged table the merge step leaves has one row for each day    *)
(* that is a day of the returns and a day of the factor file with no empty *)
(* cell, and no other row: no day twice, no day that only one of the two   *)
(* holds, no day whose factor row has an empty cell, none filled in from a *)
(* neighbouring day.                                                       *)

Days(sq) == { sq[j] : j \in DOMAIN sq }

C18_InnerJoinNoGaps ==
    pc = "aligned" =>
        LET m == loc.df_merged
            inMerged == Days(m)
            inReturns == Days(ReturnDates(tickers[i]))
            fd == FileDays(ff_csv)
        IN  /\ Len(m) = Cardinality(inMerged)
            /\ \A j \in 1..(Len(m) - 1) : m[j] < m[j + 1]
            /\ \A x \in inMerged : x \in inReturns /\ CompleteDay(fd, x)
            /\ \A x \in inReturns : CompleteDay(fd, x) => x \in inMerged

\* a merged table of 300 rows: the returns hold a day whose factor row has
\* an empty cell and days after the end of the factor file, the factor file
\* holds days without return
C18_Witness ==
    /\ pc = "aligned"
    /\ Len(loc.df_merged) = 300
    /\ ff_csv.incomplete # {}
    /\ \E v \in ff_csv.incomplete : ParseYmd(v) \in Days(ReturnDates(tickers[i]))
    /\ \E x \in Days(ReturnDates(tickers[i])) : x > ParseYmd(ff_csv.last)
    /\ \E x \in TableDates(ff_data) : x \notin Days(ReturnDates(tickers[i]))
    /\ \A v \in ff_csv.incomplete : ParseYmd(v) \notin Days(loc.df_merged)

----------------------------------------------------------------------------
(* C19: the trend string of a row lists, oldest first, the market loading  *)
(* at the positions 1, 21, 41, ... of the available loadings (those of the *)
(* merged rows from the 252nd on), the 10 latest of these positions when   *)
(* there are more than 10, each printed with 2 decimals.                   *)

\* every 20th position of a available loadings, from the first
SnapshotPositions(a) == { 1 + 20 * j : j \in 0..((a - 1) \div 20) }

\* the 10 latest of them
KeptPositions(a) ==
    { q \in SnapshotPositions(a) :
        Cardinality({ p \in SnapshotPositions(a) : p > q }) < 10 }

\* a set of numbers in increasing order
Ascending(S) ==
    [j \in 1..Cardinality(S) |->
        CHOOSE q \in S : Cardinality({ p \in S : p < q }) = j - 1]

\* the strings the claim allows for the instrument d
ClaimedTrends(d) ==
    LET kept == Ascending(KeptPositions(d.overlap - 251))
    IN  JoinChoices(",", [j \in DOMAIN kept |->
                            Fmt2(RollingParams(d, 251 + kept[j]).mkt)])

C19_TrendSnapshots ==
    /\ pc = "scored" => Len(loc.beta_trend) <= 10
    /\ \A r \in DOMAIN results :
          results[r].Beta_Trend \in ClaimedTrends(tickers[results[r].Ticker])

\* 460 merged rows give 209 loadings and 11 snapshot positions: the row
\* lists the 10 from position 21 to position 201, oldest first, and neither
\* the first snapshot (0.80) nor the final loading (1.10)
C19_Witness ==
    \E r \in DOMAIN results :
        /\ tickers[results[r].Ticker].overlap = 460
        /\ Cardinality(SnapshotPositions(209)) = 11
        /\ results[r].Beta_Trend = "1.00,1.20,1.40,1.60,1.80,2.00,2.20,2.40,2.60,2.80"

----------------------------------------------------------------------------
(* C20: ff_data is assigned in one step only, the load that precedes the   *)
(* loop, when nothing has been processed yet; from then on it is the       *)
(* loaded factor file, whatever happens to the instruments.                *)

LoadsOnce ==
    ff_data' # ff_data =>
        /\ pc = "start" /\ pc' = "loop"
        /\ ff_data = NoTable
        /\ console = <<>> /\ results = <<>>

C20_FactorTableReadOnly ==
    /\ [](pc \in {"loop", "fetched", "returns", "aligned", "regressed", "scored", "done"}
            => ff_data = Prepared(ff_csv))
    /\ [][LoadsOnce]_vars

\* after an instrument that failed in the regression and one that was
\* assembled, the table is the loaded file
C20_Witness ==
    /\ pc = "done"
    /\ Len(tickers) = 2
    /\ Outcomes(1) = << [t |-> 1, msg |-> "Failed"] >>
    /\ tickers[1].raises = "regress"
    /\ Outcomes(2) = << [t |-> 2, msg |-> "Done."] >>
    /\ ff_data = Prepared(ff_csv) /\ TableDates(ff_data) # {}

----------------------------------------------------------------------------
(* C21: the instruments are processed one after another in the order of    *)
(* the ticker list, at most one in progress at any time: while the loop    *)
(* runs, the tickers before the current one have their final print, the    *)
(* tickers after it have no print, no row and no returns entry, the        *)
(* position only ever moves to the next ticker, at a final print, and a    *)
(* row is appended for the current ticker only; so the rows of `results`,  *)
(* and the final prints, are in the order of the ticker list.              *)

\* the tickers of a list of rows or prints are strictly increasing
InListOrder(tk) == \A r \in 1..(Len(tk) - 1) : tk[r] < tk[r + 1]

OneInProgress ==
    /\ pc \in {"loop", "done"} \cup {"fetched", "returns", "aligned", "regressed", "scored"} =>
          \A k \in DOMAIN tickers :
              /\ Outcomes(k) # <<>> <=> k < i
              /\ k > i => RowsOf(k) = {} /\ k \notin DOMAIN all_returns_data
              /\ (k = i /\ pc \in {"loop", "fetched"}) =>
                     RowsOf(k) = {} /\ k \notin DOMAIN all_returns_data
    /\ InBody => i \in DOMAIN tickers
    /\ InListOrder([r \in DOMAIN results |-> results[r].Ticker])
    /\ InListOrder([r \in DOMAIN console |-> console[r].t])

NextInTurn ==
    /\ pc # "start" => i' = i \/ (i' = i + 1 /\ console' # console)
    /\ results' # results =>
          /\ Len(results') = Len(results) + 1
          /\ \E r \in DOMAIN results' : results'[r].Ticker = i
          /\ \A r \in DOMAIN results : \E q \in DOMAIN results' : results'[q] = results[r]

C21_ListOrder == []OneInProgress /\ [][NextInTurn]_vars

\* the rows of two different instruments, in the order of the list, the
\* second one built while the row of the first was already there
C21_Witness ==
    /\ pc = "done"
    /\ Len(tickers) = 2 /\ tickers[1] # tickers[2]
    /\ Len(results) = 2
    /\ results[1].Ticker = 1 /\ results[2].Ticker = 2
    /\ console = << [t |-> 1, msg |-> "Done."], [t |-> 2, msg |-> "Done."] >>

----------------------------------------------------------------------------
(* C22: the return series of n closing prices has n - 1 entries, one for   *)
(* each session but the first; with fewer than 2 prices (no row, one row,  *)
(* or no close in any row) the series is empty, and the instrument ends    *)
(* skipped, without a row.                                                 *)

\* the closing prices the download delivers for d
ValidPrices(d) == IF d.valid THEN d.n ELSE 0

\* a table of n rows with nothing else of interest
ShortTable(n, v) == Inst(n, v, 100, 105, 1, 0, AllNaN, 0, "none", Date1)

C22_ReturnsOneShorter ==
    /\ pc = "start" =>
          \A n \in 0..3 : \A v \in BOOLEAN :
              Len(DailyReturns(ShortTable(n, v))) = (IF v /\ n >= 2 THEN n - 1 ELSE 0)
    /\ pc = "returns" =>
          LET d == tickers[i]
              r == DailyReturns(d)
              rd == ReturnDates(d)
          IN  /\ ValidPrices(d) = d.n
              /\ Len(r) = d.n - 1
              /\ loc.nret = Len(r)
              /\ Len(rd) = Len(r)
              /\ rd[1] = PxDate(d, 2) /\ PxDate(d, 1) < rd[1]
              /\ all_returns_data[i] = (IF Len(r) < 252 THEN Len(r) ELSE 252)
    /\ \A k \in DOMAIN tickers :
          (Finished(k) /\ pc # "start" /\ tickers[k].raises # "download"
                /\ ValidPrices(tickers[k]) < 2) =>
              /\ DailyReturns(tickers[k]) = <<>>
              /\ Outcomes(k)[1].msg \in
                    {"Skipped (Insufficient Data)", "Skipped (No Returns)"}
              /\ RowsOf(k) = {}
              /\ k \notin DOMAIN all_returns_data

\* after an instrument of 300 rows without a close, skipped for having no
\* return, the 299 returns of an instrument of 300 closes
C22_Witness ==
    /\ pc = "returns" /\ i = 2
    /\ tickers[1].n = 300 /\ ~tickers[1].valid
    /\ Outcomes(1) = << [t |-> 1, msg |-> "Skipped (No Returns)"] >>
    /\ tickers[2].n = 300
    /\ Len(DailyReturns(tickers[2])) = 299
    /\ loc.nret = 299

----------------------------------------------------------------------------
(* C23: a merged table of at least 126 but fewer than 252 rows passes the  *)
(* overlap gate and never gives a row: the step that follows the merge     *)
(* ends the instrument with "Skipped (NaN in regression)" or, on an        *)
(* exception, with "Failed", and appends nothing; so coefficients are      *)
(* scored, and a row is appended, only from a merged table of at least 252 *)
(* rows.                                                                   *)

ShortWindowEnds ==
    /\ (pc = "aligned" /\ Len(loc.df_merged) < 252) =>
          /\ pc' = "loop" /\ i' = i + 1
          /\ results' = results
          /\ \E m \in {"Skipped (NaN in regression)", "Failed"} :
                console' = Append(console, [t |-> i, msg |-> m])
    /\ results' # results => pc = "scored" /\ Len(loc.df_merged) >= 252

C23_ShortWindowNoRow ==
    /\ [](pc = "aligned" => Len(loc.df_merged) >= 126)
    /\ [](pc \in {"regressed", "scored"} =>
            Len(loc.df_merged) >= 252 /\ loc.nmerged >= 252)
    /\ [][ShortWindowEnds]_vars

\* an instrument with 200 merged rows has passed the overlap gate, kept its
\* returns entry and ended skipped for its NaN coefficients, without a row
C23_Witness ==
    /\ pc = "loop" /\ i = 2
    /\ Len(MergedIndex(tickers[1], ff_data)) = 200
    /\ tickers[1].raises = "none"
    /\ Outcomes(1) = << [t |-> 1, msg |-> "Skipped (NaN in regression)"] >>
    /\ 1 \in DOMAIN all_returns_data
    /\ results = <<>>

----------------------------------------------------------------------------
(* C24: an instrument whose downloaded table has fewer than 252 rows is    *)
(* skipped at the first step of its iteration, before any return, merge or *)
(* momentum: that step prints "Skipped (Insufficient Data)" and leaves     *)
(* `results` and the returns collection as they are; so the loop body is   *)
(* only ever inside an instrument of at least 252 rows, and the momentum   *)
(* that is scored is the price ratio over more than 126 sessions, never    *)
(* the fallback 0 of a short series.                                       *)

ShortTableLeaves ==
    /\ (pc = "loop" /\ i \in DOMAIN tickers /\ tickers[i].raises # "download"
            /\ tickers[i].n < 252) =>
          /\ pc' = "loop" /\ i' = i + 1
          /\ console' = Append(console, [t |-> i, msg |-> "Skipped (Insufficient Data)"])
          /\ results' = results
          /\ all_returns_data' = all_returns_data
          /\ loc' = NoLoc
    /\ results' # results => tickers[i].n > 126
    /\ all_returns_data' # all_returns_data => tickers[i].n >= 252

C24_ShortTableSkippedFirst ==
    /\ [](InBody => tickers[i].n >= 252)
    /\ [](pc = "scored" =>
            LET d == tickers[i]
            IN  /\ d.n > 126
                /\ loc.mom_raw = PriceChange(Px(d, d.n), Px(d, d.n - 125)))
    /\ [](\A k \in DOMAIN all_returns_data : tickers[k].n >= 252)
    /\ [](\A r \in DOMAIN results : tickers[results[r].Ticker].n >= 252)
    /\ [][ShortTableLeaves]_vars

\* after an instrument of 50 rows, skipped without a returns entry, an
\* instrument of 380 rows is scored with the momentum of its price ratio
C24_Witness ==
    /\ pc = "scored" /\ i = 2
    /\ tickers[1].n = 50
    /\ Outcomes(1) = << [t |-> 1, msg |-> "Skipped (Insufficient Data)"] >>
    /\ DOMAIN all_returns_data = {2}
    /\ tickers[2].n = 380
    /\ loc.mom_raw = 3000

----------------------------------------------------------------------------
(* C25: every ticker with a row in `results` has an entry in the returns   *)
(* collection, and not conversely: an instrument skipped for its overlap,  *)
(* skipped for NaN coefficients or failed after the returns step has an    *)
(* entry and no row.  An entry holds the last 252 returns of its           *)
(* instrument, all of them when there are fewer, and is never changed or   *)
(* removed afterwards.                                                     *)

\* ticker k ended after its returns were kept
EndedAfterReturns(k) ==
    /\ Finished(k) /\ pc # "start"
    /\ \/ Outcomes(k)[1].msg \in
             {"Skipped (Not enough overlapping data)", "Skipped (NaN in regression)"}
       \/ Outcomes(k)[1].msg = "Failed" /\ tickers[k].raises = "regress"

EntriesKept ==
    /\ \A k \in DOMAIN all_returns_data :
          k \in DOMAIN all_returns_data' /\ all_returns_data'[k] = all_returns_data[k]
    /\ \A k \in DOMAIN all_returns_data' \ DOMAIN all_returns_data :
          /\ k = i
          /\ all_returns_data'[k] = Len(TailN(ReturnDates(tickers[k]), 252))

C25_RowsHaveReturns ==
    /\ [](\A r \in DOMAIN results : results[r].Ticker \in DOMAIN all_returns_data)
    /\ [](\A k \in DOMAIN tickers :
            EndedAfterReturns(k) => k \in DOMAIN all_returns_data /\ RowsOf(k) = {})
    /\ [](\A k \in DOMAIN all_returns_data :
            all_returns_data[k] <= 252 /\ all_returns_data[k] <= NumReturns(tickers[k]))
    /\ [][EntriesKept]_vars

\* an instrument skipped for its overlap of 100 rows has its 252 latest
\* returns kept and no row; the instrument after it has both
C25_Witness ==
    /\ pc = "done"
    /\ Len(tickers) = 2
    /\ Outcomes(1) = << [t |-> 1, msg |-> "Skipped (Not enough overlapping data)"] >>
    /\ NumReturns(tickers[1]) = 299
    /\ all_returns_data[1] = 252
    /\ RowsOf(1) = {}
    /\ RowsOf(2) # {} /\ 2 \in DOMAIN all_returns_data

----------------------------------------------------------------------------
(* C26: the list `baskets` never holds both labels of one factor, holds at *)
(* most 5 labels, and holds them in the order market, size, value,         *)
(* quality, momentum; the basket string is their join in that order.       *)

\* the factor a label belongs to: 1 market, 2 size, 3 value, 4 quality,
\* 5 momentum
FactorOf(l) ==
    CASE l \in {"Aggressive High Beta", "Defensive Low Vol"} -> 1
      [] l \in {"Small Cap Tilt", "Large Cap Tilt"} -> 2
      [] l \in {"Deep Value", "High Growth"} -> 3
      [] l = "High Quality MOAT" -> 4
      [] l \in {"Momentum Leader", "Falling Knife"} -> 5

\* the pairs of labels of one factor
ExclusivePairs ==
    { {"Aggressive High Beta", "Defensive Low Vol"}, {"Small Cap Tilt", "Large Cap Tilt"},
      {"Deep Value", "High Growth"}, {"Momentum Leader", "Falling Knife"} }

C26_ExclusiveOrdered ==
    pc = "scored" =>
        LET bs == loc.baskets
            held == { bs[j] : j \in DOMAIN bs }
        IN  /\ \A pair \in ExclusivePairs : ~(pair \subseteq held)
            /\ Len(bs) <= 5
            /\ \A a, b \in DOMAIN bs : a < b => FactorOf(bs[a]) < FactorOf(bs[b])
            /\ bs # <<>> => loc.baskets_str = Join("; ", bs)

\* an instrument past the upper threshold of every factor is scored with
\* five labels
C26_Witness ==
    /\ pc = "scored"
    /\ Len(loc.baskets) = 5
    /\ loc.baskets_str =
         "Aggressive High Beta; Small Cap Tilt; Deep Value; High Quality MOAT; Momentum Leader"

----------------------------------------------------------------------------
(* C27 *)

\* the run ends before the loop: no ticker, no CSV in the archive, or a
\* failed download or parse of the factor file
EndsBeforeLoop == tickers = <<>> \/ ff \in {"nocsv", "failed"}

\* nothing printed for an instrument, nothing collected, nothing written
NothingDone ==
    /\ files = {} /\ console = <<>> /\ results = <<>>
    /\ DOMAIN all_returns_data = {}
    /\ ~InBody

\* the iteration of ticker k got to the returns step (section 3): it was
\* neither stopped by the download nor skipped at the Insufficient Data gate
ReachedReturns(k) ==
    /\ Outcomes(k)[1].msg # "Skipped (Insufficient Data)"
    /\ ~(Outcomes(k)[1].msg = "Failed" /\ tickers[k].raises = "download")

\* the iteration of ticker k got past the No Returns gate of that step
PassedNoReturns(k) ==
    ReachedReturns(k) /\ Outcomes(k)[1].msg # "Skipped (No Returns)"

\* C27 as stated: nothing is processed or written when the run ends before
\* the loop; otherwise, once the run is done, the factor file is written
\* exactly when a row was assembled and the returns file exactly when an
\* instrument reached the returns step.
C27_AsStated ==
    /\ EndsBeforeLoop => pc \in {"start", "returned"} /\ NothingDone
    /\ pc # "done" => files = {}
    /\ pc = "done" =>
          /\ "stock_factor_data.csv" \in files <=> results # <<>>
          /\ "stock_returns_data.csv" \in files <=>
                \E k \in DOMAIN tickers : ReachedReturns(k)

\* C27, amended: nothing is processed or written when the run ends before
\* the loop; otherwise, once the run is done, the factor file is written
\* exactly when a row was assembled and the returns file exactly when an
\* instrument got past the No Returns gate of the returns step, that is when
\* the returns collection has an entry: an instrument that reaches the
\* returns step with an empty return series is skipped there and counts for
\* nothing.
C27_FilesWritten ==
    /\ EndsBeforeLoop => pc \in {"start", "returned"} /\ NothingDone
    /\ pc # "done" => files = {}
    /\ pc = "done" =>
          /\ files \subseteq {"stock_factor_data.csv", "stock_returns_data.csv"}
          /\ "stock_factor_data.csv" \in files <=> results # <<>>
          /\ "stock_returns_data.csv" \in files <=>
                \E k \in DOMAIN tickers : PassedNoReturns(k)
          /\ (\E k \in DOMAIN tickers : PassedNoReturns(k)) <=>
                DOMAIN all_returns_data # {}

\* a run whose only instrument reached the returns step without a return
\* has ended with no file
C27_Witness ==
    /\ pc = "done"
    /\ Len(tickers) = 1
    /\ Outcomes(1) = << [t |-> 1, msg |-> "Skipped (No Returns)"] >>
    /\ ReachedReturns(1) /\ ~PassedNoReturns(1)
    /\ files = {}

----------------------------------------------------------------------------
(* CBBC.py: download_and_parse_v5 *)

MAX_NETWORK_RETRIES == 5

\* the batch is not run
BatchIdle ==
    /\ tickers = <<>> /\ ff = "failed" /\ ff_csv = NoFile /\ ff_data = NoTable
    /\ rounding = <<>> /\ loc = NoLoc /\ results = <<>>
    /\ all_returns_data = <<>> /\ console = <<>> /\ files = {}

\* What a request of the full list can meet: the CSV, a response without the
\* header row, an error of the requests library (raise_for_status included),
\* or another exception.
DlOutcomes == {"csv", "garbled", "RequestException", "Exception"}

\* what the k-th network call meets; the network stays down after the
\* scripted calls
Meets(k) == IF k \in DOMAIN net THEN net[k] ELSE "RequestException"

\* the wait without its cap: 2 ** attempt
BackoffUncapped(a) == 2 ^ a

\* min(5, 2 ** attempt)
Backoff(a) == IF 2 ^ a < 5 THEN 2 ^ a ELSE 5

Call(op, n) == [op |-> op, n |-> n]

DownloadInit ==
    /\ BatchIdle
    /\ pc = "dl_start" /\ i = 0
    /\ net \in [1..MAX_NETWORK_RETRIES -> DlOutcomes]
    /\ attempt = 0 /\ resp = "None" /\ calls = <<>> /\ ret = "none"
    /\ df_hsi = <<>> /\ spot = 0 /\ masks = <<>> /\ ladder = <<>>

\* r = None; the first iteration of `for attempt in range(1, 6)`
DlEnter ==
    /\ pc = "dl_start"
    /\ pc' = "dl_request" /\ attempt' = 1
    /\ UNCHANGED <<batch_vars, i, net, resp, calls, ret, df_hsi, spot, masks, ladder>>

\* r = requests.get(...); r.raise_for_status(); break, and the two handlers
DlRequest ==
    /\ pc = "dl_request"
    /\ calls' = Append(calls, Call("get", attempt))
    /\ LET met == Meets(Len(SelectSeq(calls, LAMBDA c : c.op = "get")) + 1)
       IN  IF met \in {"csv", "garbled"}
           THEN resp' = met /\ pc' = "dl_parse" /\ ret' = ret
           ELSE IF met = "RequestException"
           THEN IF attempt = MAX_NETWORK_RETRIES
                THEN pc' = "dl_raised" /\ ret' = "RequestException" /\ resp' = resp
                ELSE pc' = "dl_sleep" /\ UNCHANGED <<ret, resp>>
           ELSE pc' = "dl_raised" /\ ret' = "Exception" /\ resp' = resp
    /\ UNCHANGED <<batch_vars, i, net, attempt, df_hsi, spot, masks, ladder>>

\* time.sleep(min(5, 2 ** attempt)) and the next iteration; a loop that runs
\* out leaves r = None to the parse
DlSleep ==
    /\ pc = "dl_sleep"
    /\ calls' = Append(calls, Call("sleep", Backoff(attempt)))
    /\ IF attempt < MAX_NETWORK_RETRIES
       THEN pc' = "dl_request" /\ attempt' = attempt + 1
       ELSE pc' = "dl_parse" /\ attempt' = attempt
    /\ UNCHANGED <<batch_vars, i, net, resp, ret, df_hsi, spot, masks, ladder>>

\* decoding, the search of the header row, read_csv and the column work:
\* `return df`, or the outer handler printing and re-raising
DlParse ==
    /\ pc = "dl_parse"
    /\ calls' = Append(calls, Call("parse", 0))
    /\ IF resp = "csv"
       THEN pc' = "dl_returned" /\ ret' = "df"
       ELSE pc' = "dl_raised" /\ ret' = "Exception"
    /\ UNCHANGED <<batch_vars, i, net, attempt, resp, df_hsi, spot, masks, ladder>>

DownloadNext == DlEnter \/ DlRequest \/ DlSleep \/ DlParse

DownloadSpec == DownloadInit /\ [][DownloadNext]_vars

----------------------------------------------------------------------------
(* C28: download_and_parse_v5 issues at most 5 requests, numbered 1, 2,    *)
(* ... without a gap; it issues one only while every earlier one met a     *)
(* request error, so none after the first success; it sleeps only right    *)
(* after a request that met a request error and was not the 5th, for       *)
(* min(5, 2^attempt) seconds (2, 4, 5, 5), and then always; and when all 5 *)
(* requests met a request error it ends raising that error, having parsed  *)
(* nothing.                                                                *)

Gets == SelectSeq(calls, LAMBDA c : c.op = "get")

C28_BoundedRetries ==
    /\ Len(Gets) <= 5
    /\ \A j \in DOMAIN Gets : Gets[j].n = j
    /\ \A j \in DOMAIN Gets : \A k \in 1..(j - 1) : net[k] = "RequestException"
    /\ \A j \in DOMAIN calls :
          calls[j].op = "sleep" =>
              /\ j > 1 /\ calls[j - 1].op = "get"
              /\ LET a == calls[j - 1].n
                 IN  /\ net[a] = "RequestException" /\ a < 5
                     /\ calls[j].n = <<2, 4, 5, 5>>[a]
    /\ \A j \in DOMAIN calls :
          (calls[j].op = "get" /\ calls[j].n < 5 /\ net[calls[j].n] = "RequestException") =>
              IF j = Len(calls) THEN pc = "dl_sleep" ELSE calls[j + 1].op = "sleep"
    /\ (pc \in {"dl_returned", "dl_raised"}
            /\ \A k \in 1..5 : net[k] = "RequestException") =>
          /\ pc = "dl_raised" /\ ret = "RequestException"
          /\ Len(Gets) = 5
          /\ \A j \in DOMAIN calls : calls[j].op # "parse"
    /\ pc = "dl_returned" =>
          /\ ret = "df" /\ net[Len(Gets)] = "csv"
          /\ calls[Len(calls)].op = "parse"

\* five requests that all met a request error, the four waits between them,
\* and the error raised
C28_Witness ==
    /\ pc = "dl_raised" /\ ret = "RequestException"
    /\ calls = << Call("get", 1), Call("sleep", 2), Call("get", 2), Call("sleep", 4),
                  Call("get", 3), Call("sleep", 5), Call("get", 4), Call("sleep", 5),
                  Call("get", 5) >>

----------------------------------------------------------------------------
(* CBBC.py: get_hsi_price *)

\* 19200.0
FALLBACK_PRICE == 19200 * Scale

\* the last closes a fetch can deliver: one with more than 2 decimals, one on
\* a decimal tie, and a missing one
PxCloses == {192345678, 192000050, NaN}

\* What a fetch of the index history can come to: an exception somewhere in
\* lines 137-141 (an empty history included), or a last close.
PxOutcomes ==
    {[ok |-> FALSE, close |-> 0]} \cup {[ok |-> TRUE, close |-> c] : c \in PxCloses}

\* what the k-th fetch comes to; the source stays down after the scripted
\* fetches
Fetch(k) == IF k \in DOMAIN net THEN net[k] ELSE [ok |-> FALSE, close |-> 0]

\* hist.index[-1].strftime('%Y-%m-%d') of the history fetched at attempt k
BarDate(k) == <<"bar", k>>

\* dt.datetime.now().strftime('%Y-%m-%d')
Today == <<"today", 0>>

PriceInit ==
    /\ BatchIdle
    /\ pc = "px_start" /\ i = 0
    /\ net \in [1..MAX_NETWORK_RETRIES -> PxOutcomes]
    /\ attempt = 0 /\ resp = "None" /\ calls = <<>> /\ ret = <<>>
    /\ df_hsi = <<>> /\ spot = 0 /\ masks = <<>> /\ ladder = <<>>

\* the first iteration of `for attempt in range(1, 6)`
PxEnter ==
    /\ pc = "px_start"
    /\ pc' = "px_try" /\ attempt' = 1
    /\ UNCHANGED <<batch_vars, i, net, resp, calls, ret, df_hsi, spot, masks, ladder>>

\* the try block: `return round(float(close), 2), date`, or into the handler
PxTry ==
    /\ pc = "px_try"
    /\ calls' = Append(calls, Call("get", attempt))
    /\ LET met == Fetch(Len(SelectSeq(calls, LAMBDA c : c.op = "get")) + 1)
       IN  IF ~met.ok
           THEN pc' = "px_sleep" /\ ret' = ret
           ELSE /\ pc' = "px_returned"
                /\ \E p \in RoundSet(met.close, 100) : ret' = <<p, BarDate(attempt)>>
    /\ UNCHANGED <<batch_vars, i, net, attempt, resp, df_hsi, spot, masks, ladder>>

\* except Exception: time.sleep(1), and the next iteration or the end of the
\* loop
PxSleep ==
    /\ pc = "px_sleep"
    /\ calls' = Append(calls, Call("sleep", 1))
    /\ IF attempt < MAX_NETWORK_RETRIES
       THEN pc' = "px_try" /\ attempt' = attempt + 1
       ELSE pc' = "px_fallback" /\ attempt' = attempt
    /\ UNCHANGED <<batch_vars, i, net, resp, ret, df_hsi, spot, masks, ladder>>

\* the last failure raised again instead of the fallback
PxFallbackRaise ==
    /\ pc = "px_fallback"
    /\ pc' = "px_raised"
    /\ UNCHANGED <<batch_vars, i, net, attempt, resp, calls, ret, df_hsi, spot, masks, ladder>>

\* return 19200.0, dt.datetime.now().strftime('%Y-%m-%d')
PxFallback ==
    /\ pc = "px_fallback"
    /\ pc' = "px_returned" /\ ret' = <<FALLBACK_PRICE, Today>>
    /\ UNCHANGED <<batch_vars, i, net, attempt, resp, calls, df_hsi, spot, masks, ladder>>

PriceNext == PxEnter \/ PxTry \/ PxSleep \/ PxFallback

PriceSpec == PriceInit /\ [][PriceNext]_vars

----------------------------------------------------------------------------
(* C29: get_hsi_price never ends by raising and makes at most 5 fetches;   *)
(* when it has returned, either some fetch delivered a close, and then it  *)
(* stopped at the first such fetch and returned that close rounded to 2    *)
(* decimals with the date of that history, or all 5 fetches failed and it  *)
(* returned 19200.0 with today's date.                                     *)

Fetched == {k \in DOMAIN net : net[k].ok}

FirstFetched == CHOOSE k \in Fetched : \A m \in Fetched : k <= m

C29_NeverRaises ==
    /\ pc \in {"px_start", "px_try", "px_sleep", "px_fallback", "px_returned"}
    /\ Len(Gets) <= MAX_NETWORK_RETRIES
    /\ pc = "px_returned" =>
          IF Fetched = {}
          THEN Len(Gets) = 5 /\ ret = <<FALLBACK_PRICE, Today>>
          ELSE /\ Len(Gets) = FirstFetched
               /\ ret[1] \in RoundSet(net[FirstFetched].close, 100)
               /\ ret[2] = BarDate(FirstFetched)

\* five failed fetches and the fallback returned
C29_Witness ==
    /\ pc = "px_returned" /\ Fetched = {}
    /\ Len(Gets) = 5 /\ ret = <<FALLBACK_PRICE, Today>>

----------------------------------------------------------------------------
(* CBBC.py: calculate_ladder *)
(* Prices (spot, strikes) are in hundredths here, notionals in units of    *)
(* 10^5, so that a cell of the ladder, in millions, is a tenth of a sum.   *)

MaxContracts == 2

\* two spot prices: 15004.0, and the fallback 19200.0
Spots == {1500400, 1920000}

Percents == (1..10) \cup {0 - p : p \in 1..10}

\* The double spot * (1 + p / 100) (for p < 0: spot * (1 - (-p) / 100))
\* against the double of the two-decimal number spot * (100 + p) / 100: 1
\* above it, -1 below it, 0 the same.  15004.0 * (1 - 9 / 100) is
\* 13653.640000000001, 15004.0 * (1 - 6 / 100) is 14103.759999999998,
\* 15004.0 * (1 + 6 / 100) is 15904.240000000002 and 15004.0 * (1 + 8 / 100)
\* is 16204.320000000002; every other product of the two spots is the double
\* of its decimal value.
FloatSide(s, p) ==
    IF s = 1500400
    THEN CASE p = 0 - 9 -> 1
           [] p = 0 - 6 -> 0 - 1
           [] p = 6 -> 1
           [] p = 8 -> 1
           [] OTHER -> 0
    ELSE 0

\* spot * (100 + p) / 100, for the spots modelled a whole number of hundredths
Edge(s, p) == (s * (100 + p)) \div 100

\* strike > spot * (1 + p / 100) and strike >= spot * (1 + p / 100) on
\* doubles; a comparison with NaN is False
StrikeGt(k, s, p) ==
    /\ k # NaN
    /\ \/ 100 * k > s * (100 + p)
       \/ 100 * k = s * (100 + p) /\ FloatSide(s, p) < 0

StrikeGe(k, s, p) ==
    /\ k # NaN
    /\ \/ 100 * k > s * (100 + p)
       \/ 100 * k = s * (100 + p) /\ FloatSide(s, p) <= 0

StrikeLe(k, s, p) == k # NaN /\ ~StrikeGt(k, s, p)

StrikeLt(k, s, p) == k # NaN /\ ~StrikeGe(k, s, p)

\* strike levels around a spot: the spot, next to it, on the edges of the
\* buckets 1%, -1%, -9%, 10% and -10%, next to the outer edges, and missing
Strikes(s) ==
    { s, s + 1, s - 1, Edge(s, 1), Edge(s, 0 - 1), Edge(s, 0 - 9),
      Edge(s, 10), Edge(s, 10) + 1, Edge(s, 0 - 10), Edge(s, 0 - 10) - 1, NaN }

\* a row of df_hsi: the 'Bull/Bear' and 'Strike Level' columns, and the
\* product Entitlement Ratio^ * Total Issue Size / 100 * spot of its row
Contracts(s) ==
    [kind : {"Bull", "Bear"}, strike : Strikes(s), product : {15}]
        \cup [kind : {"Bull", "Bear"}, strike : {s + 1, s - 1}, product : {6}]
        \cup {[kind |-> "Bear", strike |-> s + 1, product |-> NaN]}

RECURSIVE SeqsUpTo(_, _)
SeqsUpTo(S, n) ==
    IF n = 0 THEN {<<>>}
    ELSE LET shorter == SeqsUpTo(S, n - 1)
         IN  shorter \cup {Append(q, x) : q \in {t \in shorter : Len(t) = n - 1}, x \in S}

\* df_hsi['notional'] = (...).fillna(0)
Notional(c) == IF c.product = NaN THEN 0 ELSE c.product

RECURSIVE SumNotional(_, _)
SumNotional(df, rows) ==
    IF rows = {} THEN 0
    ELSE LET r == CHOOSE x \in rows : TRUE
         IN  Notional(df[r]) + SumNotional(df, rows \ {r})

\* int(x / 1e6) of a sum that is not negative
IntMillions(x) == x \div 10

\* the bear mask with both ends included
BearMaskClosed(df, s, n) ==
    { r \in DOMAIN df : /\ df[r].kind = "Bear"
                        /\ StrikeGe(df[r].strike, s, n - 1)
                        /\ StrikeLe(df[r].strike, s, n) }

\* m = (bear['Strike Level'] > lower) & (bear['Strike Level'] <= upper)
BearMask(df, s, n) ==
    { r \in DOMAIN df : /\ df[r].kind = "Bear"
                        /\ StrikeGt(df[r].strike, s, n - 1)
                        /\ StrikeLe(df[r].strike, s, n) }

\* m_b = (bull['Strike Level'] < upper_b) & (bull['Strike Level'] >= lower_b)
BullMask(df, s, n) ==
    { r \in DOMAIN df : /\ df[r].kind = "Bull"
                        /\ StrikeLt(df[r].strike, s, 0 - (n - 1))
                        /\ StrikeGe(df[r].strike, s, 0 - n) }

\* Series.cumsum over the rows 1..10
RECURSIVE CumSum(_, _)
CumSum(col, n) == IF n = 0 THEN 0 ELSE CumSum(col, n - 1) + col[n]

LadderInit ==
    /\ BatchIdle
    /\ pc = "ld_start" /\ i = 0
    /\ net = <<>> /\ attempt = 0 /\ resp = "None" /\ calls = <<>> /\ ret = "none"
    /\ spot \in Spots
    /\ df_hsi \in SeqsUpTo(Contracts(spot), MaxContracts)
    /\ masks = <<>> /\ ladder = <<>>

\* if df_hsi.empty: return None; else the notional column, the empty ladder
\* with its 'Bear (M)' and 'Bull (M)' columns at 0, and the first iteration
LdEnter ==
    /\ pc = "ld_start"
    /\ IF df_hsi = <<>>
       THEN pc' = "ld_returned" /\ ret' = "None" /\ UNCHANGED <<i, ladder>>
       ELSE /\ pc' = "ld_bucket" /\ i' = 1 /\ ret' = ret
            /\ ladder' = [bear |-> [n \in 1..10 |-> 0], bull |-> [n \in 1..10 |-> 0],
                          bear_accu |-> <<>>, bull_accu |-> <<>>]
    /\ UNCHANGED <<batch_vars, net, attempt, resp, calls, df_hsi, spot, masks>>

\* one iteration of `for i in range(1, 11)`
LdBucket ==
    /\ pc = "ld_bucket"
    /\ LET m == BearMask(df_hsi, spot, i)
           m_b == BullMask(df_hsi, spot, i)
       IN  /\ masks' = (i :> m) @@ ((0 - i) :> m_b) @@ masks
           /\ ladder' = [ladder EXCEPT
                  !.bear[i] = IntMillions(SumNotional(df_hsi, m)),
                  !.bull[i] = IntMillions(SumNotional(df_hsi, m_b))]
    /\ IF i < 10 THEN i' = i + 1 /\ pc' = pc ELSE i' = i /\ pc' = "ld_accu"
    /\ UNCHANGED <<batch_vars, net, attempt, resp, calls, ret, df_hsi, spot>>

\* the two cumulative columns, and `return ladder.fillna(0)`
LdAccu ==
    /\ pc = "ld_accu"
    /\ ladder' = [ladder EXCEPT
           !.bear_accu = [n \in 1..10 |-> CumSum(ladder.bear, n)],
           !.bull_accu = [n \in 1..10 |-> CumSum(ladder.bull, n)]]
    /\ pc' = "ld_returned" /\ ret' = "ladder"
    /\ UNCHANGED <<batch_vars, i, net, attempt, resp, calls, df_hsi, spot, masks>>

LadderNext == LdEnter \/ LdBucket \/ LdAccu

LadderSpec == LadderInit /\ [][LadderNext]_vars

----------------------------------------------------------------------------
(* C30: in calculate_ladder a contract is selected by at most one of the   *)
(* masks; a Bear contract only by the mask of the bucket i% with           *)
(* spot*(1+(i-1)/100) < strike <= spot*(1+i/100), a Bull contract only by  *)
(* the mask of the bucket -i% with spot*(1-i/100) <= strike <              *)
(* spot*(1-(i-1)/100), the products being the doubles the function         *)
(* computes, and it is selected by that mask; a contract with its strike   *)
(* at the spot, more than 10% away from it, or missing, is selected by     *)
(* none; each cell is the whole millions of the notionals its mask         *)
(* selected, and Bear Accu / Bull Accu at bucket i add up the cells of the *)
(* buckets 1..i, outward from the spot.                                    *)

BucketsOf(r) == {p \in DOMAIN masks : r \in masks[p]}

\* the bucket condition of the claim for row r and bucket p
Belongs(r, p) ==
    LET k == df_hsi[r].strike
    IN  IF p > 0
        THEN /\ df_hsi[r].kind = "Bear"
             /\ StrikeGt(k, spot, p - 1) /\ StrikeLe(k, spot, p)
        ELSE /\ df_hsi[r].kind = "Bull"
             /\ StrikeGe(k, spot, p) /\ StrikeLt(k, spot, p + 1)

\* between the decimal edges of bucket p, the edges included
BetweenEdges(r, p) ==
    LET k == df_hsi[r].strike
    IN  IF p > 0
        THEN Edge(spot, p - 1) <= k /\ k <= Edge(spot, p)
        ELSE Edge(spot, p) <= k /\ k <= Edge(spot, p + 1)

OutOfLadder(r) ==
    LET k == df_hsi[r].strike
    IN  k = NaN \/ k = spot \/ k > Edge(spot, 10) \/ k < Edge(spot, 0 - 10)

RunningSums(cells, accu) ==
    /\ accu[1] = cells[1]
    /\ \A n \in 2..10 : accu[n] = accu[n - 1] + cells[n]

C30_LadderBuckets ==
    /\ \A r \in DOMAIN df_hsi :
          /\ Cardinality(BucketsOf(r)) <= 1
          /\ \A p \in DOMAIN masks : r \in masks[p] <=> Belongs(r, p)
          /\ \A p \in BucketsOf(r) : BetweenEdges(r, p)
          /\ OutOfLadder(r) => BucketsOf(r) = {}
    /\ (pc = "ld_returned" /\ df_hsi # <<>>) =>
          /\ ret = "ladder" /\ DOMAIN masks = Percents
          /\ \A n \in 1..10 :
                /\ ladder.bear[n] = IntMillions(SumNotional(df_hsi, masks[n]))
                /\ ladder.bull[n] = IntMillions(SumNotional(df_hsi, masks[0 - n]))
          /\ RunningSums(ladder.bear, ladder.bear_accu)
          /\ RunningSums(ladder.bull, ladder.bull_accu)

\* a ladder returned for a Bear contract on the upper edge of the 1% bucket
\* and a Bull contract just under the spot
C30_Witness ==
    /\ pc = "ld_returned" /\ ret = "ladder" /\ spot = 1500400
    /\ df_hsi = << [kind |-> "Bear", strike |-> Edge(spot, 1), product |-> 15],
                   [kind |-> "Bull", strike |-> spot - 1, product |-> 15] >>
    /\ masks[1] = {1} /\ masks[2] = {} /\ masks[0 - 1] = {2}
    /\ ladder.bear[1] = 1 /\ ladder.bear_accu[10] = 1
    /\ ladder.bull[1] = 1 /\ ladder.bull_accu[10] = 1

====
